---- MODULE Spec2Model ----
(***************************************************************************)
(* Mattermost-API: one resource class per API area (Teams, Uploads, Posts, *)
(* Bookmarks, Plugins, DataRetention), each a list of endpoint methods     *)
(* over the shared request helper Base.  A method evaluates its URL,       *)
(* calls reset(), stages headers / JSON fields / multipart parts on the    *)
(* instance and returns self.request(...).                                 *)
(*                                                                         *)
(* The instance's staging state is shared by every call made on it; the    *)
(* locals of a call (its arguments, url) are private to the call.  A call  *)
(* is executed one statement at a time by the thread that made it.         *)
(* Arguments are never reassigned inside a method, so the model binds an   *)
(* argument at the statement that first reads it.                          *)
(***************************************************************************)
EXTENDS Integers, Sequences, FiniteSets, TLC

\* Largest number of arguments of one call that differ from the plain call
\* (every required parameter supplied, every optional parameter omitted).
MaxDev == 2

\* The same limit for calls that interleave, counted over the calls together.
ConcDev == 0

\* Python's None, and the values a caller supplies.
None == "<None>"
Values == {"a", "b"}
ArgValues == Values \cup {None}

\* Construction arguments of the instance.
Tokens == {"tok"}
ServerUrls == {"https://mm"}

Threads == {"t1", "t2"}
\* Calls on one instance made one after the other by a single caller.
Serial == {"t1"}

EmptyMap == [k \in {} |-> None]
Put(f, k, v) == [x \in (DOMAIN f) \cup {k} |-> IF x = k THEN v ELSE f[x]]

\* str() of a value as an f-string renders it.
Str(v) == IF v = None THEN "None" ELSE v

(***************************************************************************)
(* Statements of a method body.                                            *)
(***************************************************************************)
Blank == [op |-> "", segs |-> <<>>, key |-> "", guard |-> "", src |-> "",
          verb |-> "", kw |-> {}, target |-> "", returns |-> FALSE]

\* url = f"..." : the path segments between the slashes.
Lit(s) == [k |-> "lit", v |-> s]
Param(p) == [k |-> "param", v |-> p]
\* {self.<path>}
Attr(path) == [k |-> "attr", v |-> path]
Url(segs) == [Blank EXCEPT !.op = "url", !.segs = segs, !.target = "url"]

\* self.<name>()
Do(name) == [Blank EXCEPT !.op = name]
\* self.add_to_json('<key>', <src>)
AddToJson(key, src) == [Blank EXCEPT !.op = "add_to_json", !.key = key, !.src = src]
\* self.add_to_multipart_form_data('<key>', <src>)
AddToMultipartFormData(key, src) ==
  [Blank EXCEPT !.op = "add_to_multipart_form_data", !.key = key, !.src = src]
\* self.add_file(file_path=<src>)
AddFile(src) == [Blank EXCEPT !.op = "add_file", !.src = src]
\* if <p> is not None: <stmt>
IfNotNone(p, stmt) == [stmt EXCEPT !.guard = p]
\* return self.request(url, request_type='<verb>', <kw>=True ...)
ReturnRequest(verb, kw) ==
  [Blank EXCEPT !.op = "request", !.verb = verb, !.kw = kw, !.returns = TRUE]

\* def <name>(self, <req...>, <opt...>=None): <body>   in class <cls>
Method(name, class, req, opt, body) ==
  [name |-> name, cls |-> class, req |-> req, opt |-> opt, body |-> body]

(***************************************************************************)
(* The resource methods, statement by statement.                           *)
(***************************************************************************)
\* ---- class Teams (mm_teams_api.py) ----

create_team ==
  Method("create_team", "Teams",
    <<"name", "display_name", "t_type">>,
    <<>>,
    << Url(<<Attr("api_url")>>),
       Do("reset"),
       Do("add_application_json_header"),
       AddToJson("name", "name"),
       AddToJson("display_name", "display_name"),
       AddToJson("type", "t_type"),
       ReturnRequest("POST", {"body"}) >>)

get_teams ==
  Method("get_teams", "Teams",
    <<>>,
    <<"page", "per_page", "include_total_count", "exclude_policy_constrained">>,
    << Url(<<Attr("api_url")>>),
       Do("reset"),
       Do("add_application_json_header"),
       IfNotNone("page", AddToJson("page", "page")),
       IfNotNone("per_page", AddToJson("per_page", "per_page")),
       IfNotNone("include_total_count", AddToJson("include_total_count", "include_total_count")),
       IfNotNone("exclude_policy_constrained", AddToJson("exclude_policy_constrained", "exclude_policy_constrained")),
       ReturnRequest("GET", {"body"}) >>)

\* get_team addressing the by-name endpoint
get_team_at_name_url ==
  Method("get_team", "Teams",
    <<"team_id">>,
    <<>>,
    << Url(<<Attr("api_url"), Lit("name"), Param("team_id")>>),
       Do("reset"),
       ReturnRequest("GET", {}) >>)

get_team ==
  Method("get_team", "Teams",
    <<"team_id">>,
    <<>>,
    << Url(<<Attr("api_url"), Param("team_id")>>),
       Do("reset"),
       ReturnRequest("GET", {}) >>)

update_team ==
  Method("update_team", "Teams",
    <<"team_id", "id", "display_name", "description", "company_name", "allowed_domains", "invite_id", "allow_open_invite">>,
    <<>>,
    << Url(<<Attr("api_url"), Param("team_id")>>),
       Do("reset"),
       Do("add_application_json_header"),
       AddToJson("id", "id"),
       AddToJson("display_name", "display_name"),
       AddToJson("description", "description"),
       AddToJson("company_name", "company_name"),
       AddToJson("allowed_domains", "allowed_domains"),
       AddToJson("invite_id", "invite_id"),
       AddToJson("allow_open_invite", "allow_open_invite"),
       ReturnRequest("PUT", {"body"}) >>)

\* delete_team staging permanent whether or not it was supplied
delete_team_unguarded_permanent ==
  Method("delete_team", "Teams",
    <<"team_id">>,
    <<"permanent">>,
    << Url(<<Attr("api_url"), Param("team_id")>>),
       Do("reset"),
       Do("add_application_json_header"),
       AddToJson("permanent", "permanent"),
       ReturnRequest("DEL", {"body"}) >>)

delete_team ==
  Method("delete_team", "Teams",
    <<"team_id">>,
    <<"permanent">>,
    << Url(<<Attr("api_url"), Param("team_id")>>),
       Do("reset"),
       Do("add_application_json_header"),
       IfNotNone("permanent", AddToJson("permanent", "permanent")),
       ReturnRequest("DEL", {"body"}) >>)

\* patch_team as it would be had its reset() been left out
patch_team_without_reset ==
  Method("patch_team", "Teams",
    <<"team_id", "display_name", "description", "company_name", "invite_id", "allow_open_invite">>,
    <<>>,
    << Url(<<Attr("api_url"), Param("team_id"), Lit("patch")>>),
       Do("add_application_json_header"),
       IfNotNone("display_name", AddToJson("display_name", "display_name")),
       IfNotNone("description", AddToJson("description", "description")),
       IfNotNone("company_name", AddToJson("company_name", "company_name")),
       IfNotNone("invite_id", AddToJson("invite_id", "invite_id")),
       IfNotNone("allow_open_invite", AddToJson("allow_open_invite", "allow_open_invite")),
       ReturnRequest("PUT", {"body"}) >>)

patch_team ==
  Method("patch_team", "Teams",
    <<"team_id", "display_name", "description", "company_name", "invite_id", "allow_open_invite">>,
    <<>>,
    << Url(<<Attr("api_url"), Param("team_id"), Lit("patch")>>),
       Do("reset"),
       Do("add_application_json_header"),
       IfNotNone("display_name", AddToJson("display_name", "display_name")),
       IfNotNone("description", AddToJson("description", "description")),
       IfNotNone("company_name", AddToJson("company_name", "company_name")),
       IfNotNone("invite_id", AddToJson("invite_id", "invite_id")),
       IfNotNone("allow_open_invite", AddToJson("allow_open_invite", "allow_open_invite")),
       ReturnRequest("PUT", {"body"}) >>)

update_team_privacy ==
  Method("update_team_privacy", "Teams",
    <<"team_id", "privacy">>,
    <<>>,
    << Url(<<Attr("api_url"), Param("team_id"), Lit("privacy")>>),
       Do("reset"),
       Do("add_application_json_header"),
       AddToJson("privacy", "privacy"),
       ReturnRequest("PUT", {"body"}) >>)

restore_team ==
  Method("restore_team", "Teams",
    <<"team_id">>,
    <<>>,
    << Url(<<Attr("api_url"), Param("team_id"), Lit("restore")>>),
       Do("reset"),
       Do("add_application_json_header"),
       ReturnRequest("POST", {}) >>)

get_team_by_name ==
  Method("get_team_by_name", "Teams",
    <<"name">>,
    <<>>,
    << Url(<<Attr("api_url"), Lit("name"), Param("name")>>),
       Do("reset"),
       Do("add_application_json_header"),
       ReturnRequest("GET", {}) >>)

search_teams ==
  Method("search_teams", "Teams",
    <<>>,
    <<"term", "page", "per_page", "allow_open_invite", "group_constrained", "exclude_policy_constrained">>,
    << Url(<<Attr("api_url"), Lit("search")>>),
       Do("reset"),
       Do("add_application_json_header"),
       IfNotNone("term", AddToJson("term", "term")),
       IfNotNone("page", AddToJson("page", "page")),
       IfNotNone("per_page", AddToJson("per_page", "per_page")),
       IfNotNone("allow_open_invite", AddToJson("allow_open_invite", "allow_open_invite")),
       IfNotNone("group_constrained", AddToJson("group_constrained", "group_constrained")),
       IfNotNone("exclude_policy_constrained", AddToJson("exclude_policy_constrained", "exclude_policy_constrained")),
       ReturnRequest("POST", {"body"}) >>)

check_if_team_exists ==
  Method("check_if_team_exists", "Teams",
    <<"name">>,
    <<>>,
    << Url(<<Attr("api_url"), Lit("name"), Param("name"), Lit("exists")>>),
       Do("reset"),
       ReturnRequest("GET", {}) >>)

get_user_teams ==
  Method("get_user_teams", "Teams",
    <<"user_id">>,
    <<>>,
    << Url(<<Attr("api_url"), Param("user_id"), Lit("teams")>>),
       Do("reset"),
       ReturnRequest("GET", {}) >>)

get_team_members ==
  Method("get_team_members", "Teams",
    <<"team_id">>,
    <<"page", "per_page">>,
    << Url(<<Attr("api_url"), Param("team_id"), Lit("members")>>),
       Do("reset"),
       Do("add_application_json_header"),
       IfNotNone("page", AddToJson("page", "page")),
       IfNotNone("per_page", AddToJson("per_page", "per_page")),
       ReturnRequest("GET", {"body"}) >>)

add_user_to_team ==
  Method("add_user_to_team", "Teams",
    <<"team_id">>,
    <<"t_id", "user_id">>,
    << Url(<<Attr("api_url"), Param("team_id"), Lit("members")>>),
       Do("reset"),
       Do("add_application_json_header"),
       IfNotNone("t_id", AddToJson("team_id", "t_id")),
       IfNotNone("user_id", AddToJson("user_id", "user_id")),
       ReturnRequest("POST", {"body"}) >>)

\* add_user_to_team_from_invite keeping the invitation token as self.token
add_user_to_team_from_invite_storing_token ==
  Method("add_user_to_team_from_invite", "Teams",
    <<"token">>,
    <<>>,
    << Url(<<Attr("api_url"), Lit("members"), Lit("invite")>>),
       [Url(<<Param("token")>>) EXCEPT !.target = "self.token"],
       Do("reset"),
       Do("add_application_json_header"),
       AddToJson("token", "token"),
       ReturnRequest("GET", {"body"}) >>)

add_user_to_team_from_invite ==
  Method("add_user_to_team_from_invite", "Teams",
    <<"token">>,
    <<>>,
    << Url(<<Attr("api_url"), Lit("members"), Lit("invite")>>),
       Do("reset"),
       Do("add_application_json_header"),
       AddToJson("token", "token"),
       ReturnRequest("GET", {"body"}) >>)

\* add_multiple_users_to_team as it would be were team_id staged from the path parameter
add_multiple_users_to_team_wrong_value ==
  Method("add_multiple_users_to_team", "Teams",
    <<"team_id">>,
    <<"graceful", "t_id", "user_id", "roles", "delete_at", "scheme_user", "scheme_admin", "explicit_roles">>,
    << Url(<<Attr("api_url"), Param("team_id"), Lit("members"), Lit("batch")>>),
       Do("reset"),
       Do("add_application_json_header"),
       IfNotNone("graceful", AddToJson("graceful", "graceful")),
       IfNotNone("t_id", AddToJson("team_id", "team_id")),
       IfNotNone("user_id", AddToJson("user_id", "user_id")),
       IfNotNone("roles", AddToJson("roles", "roles")),
       IfNotNone("delete_at", AddToJson("delete_at", "delete_at")),
       IfNotNone("scheme_user", AddToJson("scheme_user", "scheme_user")),
       IfNotNone("scheme_admin", AddToJson("scheme_admin", "scheme_admin")),
       IfNotNone("explicit_roles", AddToJson("explicit_roles", "explicit_roles")),
       ReturnRequest("POST", {"body"}) >>)

add_multiple_users_to_team ==
  Method("add_multiple_users_to_team", "Teams",
    <<"team_id">>,
    <<"graceful", "t_id", "user_id", "roles", "delete_at", "scheme_user", "scheme_admin", "explicit_roles">>,
    << Url(<<Attr("api_url"), Param("team_id"), Lit("members"), Lit("batch")>>),
       Do("reset"),
       Do("add_application_json_header"),
       IfNotNone("graceful", AddToJson("graceful", "graceful")),
       IfNotNone("t_id", AddToJson("team_id", "t_id")),
       IfNotNone("user_id", AddToJson("user_id", "user_id")),
       IfNotNone("roles", AddToJson("roles", "roles")),
       IfNotNone("delete_at", AddToJson("delete_at", "delete_at")),
       IfNotNone("scheme_user", AddToJson("scheme_user", "scheme_user")),
       IfNotNone("scheme_admin", AddToJson("scheme_admin", "scheme_admin")),
       IfNotNone("explicit_roles", AddToJson("explicit_roles", "explicit_roles")),
       ReturnRequest("POST", {"body"}) >>)

get_team_members_for_user ==
  Method("get_team_members_for_user", "Teams",
    <<"user_id">>,
    <<>>,
    << Url(<<Attr("api_url"), Param("user_id"), Lit("teams"), Lit("members"), Lit("")>>),
       Do("reset"),
       ReturnRequest("GET", {}) >>)

get_team_member ==
  Method("get_team_member", "Teams",
    <<"team_id", "user_id">>,
    <<>>,
    << Url(<<Attr("api_url"), Param("team_id"), Lit("members"), Param("user_id")>>),
       Do("reset"),
       ReturnRequest("GET", {}) >>)

remove_user_from_team ==
  Method("remove_user_from_team", "Teams",
    <<"team_id", "user_id">>,
    <<>>,
    << Url(<<Attr("api_url"), Param("team_id"), Lit("members"), Param("user_id")>>),
       Do("reset"),
       ReturnRequest("DEL", {}) >>)

get_team_members_by_ids ==
  Method("get_team_members_by_ids", "Teams",
    <<"team_id", "user_ids">>,
    <<>>,
    << Url(<<Attr("api_url"), Param("team_id"), Lit("members"), Lit("ids")>>),
       Do("reset"),
       Do("add_application_json_header"),
       IfNotNone("user_ids", AddToJson("user_ids", "user_ids")),
       ReturnRequest("POST", {"body"}) >>)

get_team_stats ==
  Method("get_team_stats", "Teams",
    <<"team_id">>,
    <<>>,
    << Url(<<Attr("api_url"), Param("team_id"), Lit("stats")>>),
       Do("reset"),
       ReturnRequest("GET", {}) >>)

regenerate_invite_id_from_team ==
  Method("regenerate_invite_id_from_team", "Teams",
    <<"team_id">>,
    <<>>,
    << Url(<<Attr("api_url"), Param("team_id"), Lit("regenerate_invite_id")>>),
       Do("reset"),
       ReturnRequest("POST", {}) >>)

get_team_icon ==
  Method("get_team_icon", "Teams",
    <<"team_id">>,
    <<>>,
    << Url(<<Attr("api_url"), Param("team_id"), Lit("image")>>),
       Do("reset"),
       ReturnRequest("GET", {}) >>)

\* sets_team_icon as it would be had it kept the JSON header of its neighbours
sets_team_icon_with_json_header ==
  Method("sets_team_icon", "Teams",
    <<"team_id">>,
    <<"image">>,
    << Url(<<Attr("api_url"), Param("team_id"), Lit("image")>>),
       Do("reset"),
       Do("add_application_json_header"),
       Do("add_multipart_form_data"),
       IfNotNone("image", AddFile("image")),
       ReturnRequest("POST", {"files"}) >>)

sets_team_icon ==
  Method("sets_team_icon", "Teams",
    <<"team_id">>,
    <<"image">>,
    << Url(<<Attr("api_url"), Param("team_id"), Lit("image")>>),
       Do("reset"),
       Do("add_multipart_form_data"),
       IfNotNone("image", AddFile("image")),
       ReturnRequest("POST", {"files"}) >>)

\* remove_team_icon naming the HTTP method DELETE instead of DEL
remove_team_icon_with_delete_verb ==
  Method("remove_team_icon", "Teams",
    <<"team_id">>,
    <<>>,
    << Url(<<Attr("api_url"), Param("team_id"), Lit("image")>>),
       Do("reset"),
       ReturnRequest("DELETE", {}) >>)

remove_team_icon ==
  Method("remove_team_icon", "Teams",
    <<"team_id">>,
    <<>>,
    << Url(<<Attr("api_url"), Param("team_id"), Lit("image")>>),
       Do("reset"),
       ReturnRequest("DEL", {}) >>)

update_team_member_roles ==
  Method("update_team_member_roles", "Teams",
    <<"team_id", "user_id", "roles">>,
    <<>>,
    << Url(<<Attr("api_url"), Param("team_id"), Lit("members"), Param("user_id"), Lit("roles")>>),
       Do("reset"),
       Do("add_application_json_header"),
       IfNotNone("roles", AddToJson("roles", "roles")),
       ReturnRequest("PUT", {"body"}) >>)

update_scheme_derived_roles_of_team_member ==
  Method("update_scheme_derived_roles_of_team_member", "Teams",
    <<"team_id", "user_id", "scheme_admin", "scheme_user">>,
    <<>>,
    << Url(<<Attr("api_url"), Param("team_id"), Lit("members"), Param("user_id"), Lit("schemeRoles")>>),
       Do("reset"),
       Do("add_application_json_header"),
       IfNotNone("scheme_admin", AddToJson("scheme_admin", "scheme_admin")),
       IfNotNone("scheme_user", AddToJson("scheme_user", "scheme_user")),
       ReturnRequest("PUT", {"body"}) >>)

get_team_unread_for_user ==
  Method("get_team_unread_for_user", "Teams",
    <<"user_id", "exclude_team">>,
    <<"include_collapsed_threads">>,
    << Url(<<Attr("base_url"), Lit("users"), Param("user_id"), Lit("teams"), Lit("unread")>>),
       Do("reset"),
       Do("add_application_json_header"),
       AddToJson("exclude_team", "exclude_team"),
       IfNotNone("include_collapsed_threads", AddToJson("include_collapsed_threads", "include_collapsed_threads")),
       ReturnRequest("GET", {"body"}) >>)

get_unread_for_team ==
  Method("get_unread_for_team", "Teams",
    <<"user_id", "team_id">>,
    <<>>,
    << Url(<<Attr("base_url"), Lit("users"), Param("user_id"), Lit("teams"), Param("team_id"), Lit("unread")>>),
       Do("reset"),
       ReturnRequest("GET", {}) >>)

invite_users_to_team_by_email ==
  Method("invite_users_to_team_by_email", "Teams",
    <<"team_id">>,
    <<"user_email">>,
    << Url(<<Attr("api_url"), Param("team_id"), Lit("invite"), Lit("email")>>),
       Do("reset"),
       Do("add_application_json_header"),
       IfNotNone("user_email", AddToJson("user_email", "user_email")),
       ReturnRequest("POST", {"body"}) >>)

invite_guests_to_team_by_email ==
  Method("invite_guests_to_team_by_email", "Teams",
    <<"team_id", "emails", "channels">>,
    <<"message">>,
    << Url(<<Attr("api_url"), Param("team_id"), Lit("invite-guests"), Lit("email")>>),
       Do("reset"),
       Do("add_application_json_header"),
       AddToJson("emails", "emails"),
       AddToJson("channels", "channels"),
       IfNotNone("message", AddToJson("message", "message")),
       ReturnRequest("POST", {"body"}) >>)

invalidate_active_email_invitations ==
  Method("invalidate_active_email_invitations", "Teams",
    <<>>,
    <<>>,
    << Url(<<Attr("api_url"), Lit("invites"), Lit("email")>>),
       Do("reset"),
       ReturnRequest("DEL", {}) >>)

import_team_from_other_application ==
  Method("import_team_from_other_application", "Teams",
    <<"team_id", "file", "filesize", "importFrom">>,
    <<>>,
    << Url(<<Attr("api_url"), Param("team_id"), Lit("import")>>),
       Do("reset"),
       Do("add_application_json_header"),
       AddToJson("file", "file"),
       AddToJson("filesize", "filesize"),
       AddToJson("importFrom", "importFrom"),
       ReturnRequest("POST", {"body"}) >>)

get_invite_info_for_team ==
  Method("get_invite_info_for_team", "Teams",
    <<"invite_id">>,
    <<>>,
    << Url(<<Attr("api_url"), Lit("invite"), Param("invite_id")>>),
       Do("reset"),
       ReturnRequest("GET", {}) >>)

set_team_scheme ==
  Method("set_team_scheme", "Teams",
    <<"team_id", "scheme_id">>,
    <<>>,
    << Url(<<Attr("api_url"), Param("team_id"), Lit("scheme")>>),
       Do("reset"),
       Do("add_application_json_header"),
       AddToJson("scheme_id", "scheme_id"),
       ReturnRequest("PUT", {"body"}) >>)

team_members_minus_group_members ==
  Method("team_members_minus_group_members", "Teams",
    <<"team_id", "group_ids">>,
    <<"page", "per_page">>,
    << Url(<<Attr("api_url"), Param("team_id"), Lit("members_minus_group_members")>>),
       Do("reset"),
       Do("add_application_json_header"),
       AddToJson("group_ids", "group_ids"),
       IfNotNone("page", AddToJson("page", "page")),
       IfNotNone("per_page", AddToJson("per_page", "per_page")),
       ReturnRequest("GET", {"body"}) >>)

\* search_files_in_team with a second attempt after the first request
search_files_in_team_with_retry ==
  Method("search_files_in_team", "Teams",
    <<"team_id", "terms", "is_or_search">>,
    <<"time_zone_offset", "include_deleted_channels", "page", "per_page">>,
    << Url(<<Attr("api_url"), Param("team_id"), Lit("files"), Lit("search")>>),
       Do("reset"),
       Do("add_application_json_header"),
       AddToJson("terms", "terms"),
       AddToJson("is_or_search", "is_or_search"),
       IfNotNone("time_zone_offset", AddToJson("time_zone_offset", "time_zone_offset")),
       IfNotNone("include_deleted_channels", AddToJson("include_deleted_channels", "include_deleted_channels")),
       IfNotNone("page", AddToJson("page", "page")),
       IfNotNone("per_page", AddToJson("per_page", "per_page")),
       [ReturnRequest("POST", {"body"}) EXCEPT !.returns = FALSE],
       ReturnRequest("POST", {"body"}) >>)

search_files_in_team ==
  Method("search_files_in_team", "Teams",
    <<"team_id", "terms", "is_or_search">>,
    <<"time_zone_offset", "include_deleted_channels", "page", "per_page">>,
    << Url(<<Attr("api_url"), Param("team_id"), Lit("files"), Lit("search")>>),
       Do("reset"),
       Do("add_application_json_header"),
       AddToJson("terms", "terms"),
       AddToJson("is_or_search", "is_or_search"),
       IfNotNone("time_zone_offset", AddToJson("time_zone_offset", "time_zone_offset")),
       IfNotNone("include_deleted_channels", AddToJson("include_deleted_channels", "include_deleted_channels")),
       IfNotNone("page", AddToJson("page", "page")),
       IfNotNone("per_page", AddToJson("per_page", "per_page")),
       ReturnRequest("POST", {"body"}) >>)

\* ---- class Uploads (mm_users_api.py) ----

login_to_mattermost_server ==
  Method("login_to_mattermost_server", "Uploads",
    <<>>,
    <<"id", "login_id", "token", "device_id", "ldap_only", "password">>,
    << Url(<<Attr("api_url"), Lit("login")>>),
       Do("reset"),
       Do("add_application_json_header"),
       IfNotNone("id", AddToJson("id", "id")),
       IfNotNone("login_id", AddToJson("login_id", "login_id")),
       IfNotNone("token", AddToJson("token", "token")),
       IfNotNone("device_id", AddToJson("device_id", "device_id")),
       IfNotNone("ldap_only", AddToJson("ldap_only", "ldap_only")),
       IfNotNone("password", AddToJson("password", "password")),
       ReturnRequest("POST", {"body"}) >>)

autologin_to_mm_server_using_cws_token ==
  Method("autologin_to_mm_server_using_cws_token", "Uploads",
    <<>>,
    <<"login_id", "cws_token">>,
    << Url(<<Attr("api_url"), Lit("login"), Lit("cws")>>),
       Do("reset"),
       Do("add_application_json_header"),
       IfNotNone("login_id", AddToJson("login_id", "login_id")),
       IfNotNone("cws_token", AddToJson("cws_token", "cws_token")),
       ReturnRequest("POST", {"body"}) >>)

logout_from_mm_server ==
  Method("logout_from_mm_server", "Uploads",
    <<>>,
    <<>>,
    << Url(<<Attr("api_url"), Lit("logout")>>),
       Do("reset"),
       ReturnRequest("POST", {}) >>)

create_user ==
  Method("create_user", "Uploads",
    <<"email", "username">>,
    <<"t", "iid", "first_name", "last_name", "nickname", "auth_data", "auth_service", "password", "locale", "props", "notify_props">>,
    << Url(<<Attr("api_url")>>),
       Do("reset"),
       Do("add_application_json_header"),
       AddToJson("email", "email"),
       AddToJson("username", "username"),
       IfNotNone("t", AddToJson("t", "t")),
       IfNotNone("iid", AddToJson("iid", "iid")),
       IfNotNone("first_name", AddToJson("first_name", "first_name")),
       IfNotNone("last_name", AddToJson("last_name", "last_name")),
       IfNotNone("nickname", AddToJson("nickname", "nickname")),
       IfNotNone("auth_data", AddToJson("auth_data", "auth_data")),
       IfNotNone("auth_service", AddToJson("auth_service", "auth_service")),
       IfNotNone("password", AddToJson("password", "password")),
       IfNotNone("locale", AddToJson("locale", "locale")),
       IfNotNone("props", AddToJson("props", "props")),
       IfNotNone("notify_props", AddToJson("notify_props", "notify_props")),
       ReturnRequest("POST", {"body"}) >>)

get_users ==
  Method("get_users", "Uploads",
    <<>>,
    <<"page", "per_page", "in_team", "not_in_team", "in_channel", "not_in_channel", "in_group", "group_constrained", "without_team", "active", "inactive", "role", "sort", "roles", "channel_roles", "team_roles">>,
    << Url(<<Attr("api_url")>>),
       Do("reset"),
       Do("add_application_json_header"),
       IfNotNone("page", AddToJson("page", "page")),
       IfNotNone("per_page", AddToJson("per_page", "per_page")),
       IfNotNone("in_team", AddToJson("in_team", "in_team")),
       IfNotNone("not_in_team", AddToJson("not_in_team", "not_in_team")),
       IfNotNone("in_channel", AddToJson("in_channel", "in_channel")),
       IfNotNone("not_in_channel", AddToJson("not_in_channel", "not_in_channel")),
       IfNotNone("in_group", AddToJson("in_group", "in_group")),
       IfNotNone("group_constrained", AddToJson("group_constrained", "group_constrained")),
       IfNotNone("without_team", AddToJson("without_team", "without_team")),
       IfNotNone("active", AddToJson("active", "active")),
       IfNotNone("inactive", AddToJson("inactive", "inactive")),
       IfNotNone("role", AddToJson("role", "role")),
       IfNotNone("sort", AddToJson("sort", "sort")),
       IfNotNone("roles", AddToJson("roles", "roles")),
       IfNotNone("channel_roles", AddToJson("channel_roles", "channel_roles")),
       IfNotNone("team_roles", AddToJson("team_roles", "team_roles")),
       ReturnRequest("GET", {"body"}) >>)

permanent_delete_all_users ==
  Method("permanent_delete_all_users", "Uploads",
    <<>>,
    <<>>,
    << Url(<<Attr("api_url")>>),
       Do("reset"),
       ReturnRequest("DEL", {}) >>)

get_users_by_ids ==
  Method("get_users_by_ids", "Uploads",
    <<>>,
    <<"since", "user_ids">>,
    << Url(<<Attr("api_url"), Lit("ids")>>),
       Do("reset"),
       Do("add_application_json_header"),
       IfNotNone("since", AddToJson("since", "since")),
       IfNotNone("user_ids", AddToJson("user_ids", "user_ids")),
       ReturnRequest("POST", {"body"}) >>)

get_users_by_group_channels_ids ==
  Method("get_users_by_group_channels_ids", "Uploads",
    <<>>,
    <<"channel_ids">>,
    << Url(<<Attr("api_url"), Lit("group_channels")>>),
       Do("reset"),
       Do("add_application_json_header"),
       IfNotNone("channel_ids", AddToJson("channel_ids", "channel_ids")),
       ReturnRequest("POST", {"body"}) >>)

get_users_by_usernames ==
  Method("get_users_by_usernames", "Uploads",
    <<>>,
    <<"usernames">>,
    << Url(<<Attr("api_url"), Lit("usernames")>>),
       Do("reset"),
       Do("add_application_json_header"),
       IfNotNone("usernames", AddToJson("usernames", "usernames")),
       ReturnRequest("POST", {"body"}) >>)

\* search_users as it would be were not_in_team_id tested with the guard of the line above
search_users_wrong_guard ==
  Method("search_users", "Uploads",
    <<"term">>,
    <<"team_id", "not_in_team_id", "in_channel_id", "not_in_channel_id", "in_group_id", "group_constrained", "allow_inactive", "without_team", "limit">>,
    << Url(<<Attr("api_url"), Lit("search")>>),
       Do("reset"),
       Do("add_application_json_header"),
       AddToJson("term", "term"),
       IfNotNone("team_id", AddToJson("team_id", "team_id")),
       IfNotNone("team_id", AddToJson("not_in_team_id", "not_in_team_id")),
       IfNotNone("in_channel_id", AddToJson("in_channel_id", "in_channel_id")),
       IfNotNone("not_in_channel_id", AddToJson("not_in_channel_id", "not_in_channel_id")),
       IfNotNone("in_group_id", AddToJson("in_group_id", "in_group_id")),
       IfNotNone("group_constrained", AddToJson("group_constrained", "group_constrained")),
       IfNotNone("allow_inactive", AddToJson("allow_inactive", "allow_inactive")),
       IfNotNone("without_team", AddToJson("without_team", "without_team")),
       IfNotNone("limit", AddToJson("limit", "limit")),
       ReturnRequest("POST", {"body"}) >>)

search_users ==
  Method("search_users", "Uploads",
    <<"term">>,
    <<"team_id", "not_in_team_id", "in_channel_id", "not_in_channel_id", "in_group_id", "group_constrained", "allow_inactive", "without_team", "limit">>,
    << Url(<<Attr("api_url"), Lit("search")>>),
       Do("reset"),
       Do("add_application_json_header"),
       AddToJson("term", "term"),
       IfNotNone("team_id", AddToJson("team_id", "team_id")),
       IfNotNone("not_in_team_id", AddToJson("not_in_team_id", "not_in_team_id")),
       IfNotNone("in_channel_id", AddToJson("in_channel_id", "in_channel_id")),
       IfNotNone("not_in_channel_id", AddToJson("not_in_channel_id", "not_in_channel_id")),
       IfNotNone("in_group_id", AddToJson("in_group_id", "in_group_id")),
       IfNotNone("group_constrained", AddToJson("group_constrained", "group_constrained")),
       IfNotNone("allow_inactive", AddToJson("allow_inactive", "allow_inactive")),
       IfNotNone("without_team", AddToJson("without_team", "without_team")),
       IfNotNone("limit", AddToJson("limit", "limit")),
       ReturnRequest("POST", {"body"}) >>)

autocomplete_users ==
  Method("autocomplete_users", "Uploads",
    <<"name">>,
    <<"team_id", "channel_id", "limit">>,
    << Url(<<Attr("api_url"), Lit("autocomplete")>>),
       Do("reset"),
       Do("add_application_json_header"),
       AddToJson("name", "name"),
       IfNotNone("team_id", AddToJson("team_id", "team_id")),
       IfNotNone("channel_id", AddToJson("channel_id", "channel_id")),
       IfNotNone("limit", AddToJson("limit", "limit")),
       ReturnRequest("GET", {"body"}) >>)

get_user_ids_of_known_users ==
  Method("get_user_ids_of_known_users", "Uploads",
    <<>>,
    <<>>,
    << Url(<<Attr("api_url"), Lit("known")>>),
       Do("reset"),
       ReturnRequest("GET", {}) >>)

get_total_count_of_users_in_the_system ==
  Method("get_total_count_of_users_in_the_system", "Uploads",
    <<>>,
    <<>>,
    << Url(<<Attr("api_url"), Lit("stats")>>),
       Do("reset"),
       ReturnRequest("GET", {}) >>)

get_total_count_of_users_in_system_matching_specified_filters ==
  Method("get_total_count_of_users_in_system_matching_specified_filters", "Uploads",
    <<>>,
    <<"in_team", "in_channel", "include_deleted", "include_bots", "roles", "channel_roles", "team_roles">>,
    << Url(<<Attr("api_url"), Lit("stats"), Lit("filtered")>>),
       Do("reset"),
       Do("add_application_json_header"),
       IfNotNone("in_team", AddToJson("in_team", "in_team")),
       IfNotNone("in_channel", AddToJson("in_channel", "in_channel")),
       IfNotNone("include_deleted", AddToJson("include_deleted", "include_deleted")),
       IfNotNone("include_bots", AddToJson("include_bots", "include_bots")),
       IfNotNone("roles", AddToJson("roles", "roles")),
       IfNotNone("channel_roles", AddToJson("channel_roles", "channel_roles")),
       IfNotNone("team_roles", AddToJson("team_roles", "team_roles")),
       ReturnRequest("GET", {"body"}) >>)

get_user ==
  Method("get_user", "Uploads",
    <<"user_id">>,
    <<>>,
    << Url(<<Attr("api_url"), Param("user_id")>>),
       Do("reset"),
       ReturnRequest("GET", {}) >>)

\* update_user dispatching before its optional fields are staged
update_user_staging_after_dispatch ==
  Method("update_user", "Uploads",
    <<"user_id", "id", "email", "username">>,
    <<"first_name", "last_name", "nickname", "locale", "position", "timezone", "props", "notify_props">>,
    << Url(<<Attr("api_url"), Param("user_id")>>),
       Do("reset"),
       Do("add_application_json_header"),
       AddToJson("id", "id"),
       AddToJson("email", "email"),
       AddToJson("username", "username"),
       [ReturnRequest("PUT", {"body"}) EXCEPT !.returns = FALSE],
       IfNotNone("first_name", AddToJson("first_name", "first_name")),
       IfNotNone("last_name", AddToJson("last_name", "last_name")),
       IfNotNone("nickname", AddToJson("nickname", "nickname")),
       IfNotNone("locale", AddToJson("locale", "locale")),
       IfNotNone("position", AddToJson("position", "position")),
       IfNotNone("timezone", AddToJson("timezone", "timezone")),
       IfNotNone("props", AddToJson("props", "props")),
       IfNotNone("notify_props", AddToJson("notify_props", "notify_props")),
       ReturnRequest("PUT", {"body"}) >>)

update_user ==
  Method("update_user", "Uploads",
    <<"user_id", "id", "email", "username">>,
    <<"first_name", "last_name", "nickname", "locale", "position", "timezone", "props", "notify_props">>,
    << Url(<<Attr("api_url"), Param("user_id")>>),
       Do("reset"),
       Do("add_application_json_header"),
       AddToJson("id", "id"),
       AddToJson("email", "email"),
       AddToJson("username", "username"),
       IfNotNone("first_name", AddToJson("first_name", "first_name")),
       IfNotNone("last_name", AddToJson("last_name", "last_name")),
       IfNotNone("nickname", AddToJson("nickname", "nickname")),
       IfNotNone("locale", AddToJson("locale", "locale")),
       IfNotNone("position", AddToJson("position", "position")),
       IfNotNone("timezone", AddToJson("timezone", "timezone")),
       IfNotNone("props", AddToJson("props", "props")),
       IfNotNone("notify_props", AddToJson("notify_props", "notify_props")),
       ReturnRequest("PUT", {"body"}) >>)

deactivate_user_account ==
  Method("deactivate_user_account", "Uploads",
    <<"user_id">>,
    <<>>,
    << Url(<<Attr("api_url"), Param("user_id")>>),
       Do("reset"),
       ReturnRequest("DEL", {}) >>)

\* patch_user as it would be were nickname staged without its test
patch_user_unguarded_nickname ==
  Method("patch_user", "Uploads",
    <<"user_id">>,
    <<"email", "username", "first_name", "last_name", "nickname", "locale", "position", "props", "notify_props">>,
    << Url(<<Attr("api_url"), Param("user_id"), Lit("patch")>>),
       Do("reset"),
       Do("add_application_json_header"),
       IfNotNone("email", AddToJson("email", "email")),
       IfNotNone("username", AddToJson("username", "username")),
       IfNotNone("first_name", AddToJson("first_name", "first_name")),
       IfNotNone("last_name", AddToJson("last_name", "last_name")),
       AddToJson("nickname", "nickname"),
       IfNotNone("locale", AddToJson("locale", "locale")),
       IfNotNone("position", AddToJson("position", "position")),
       IfNotNone("props", AddToJson("props", "props")),
       IfNotNone("notify_props", AddToJson("notify_props", "notify_props")),
       ReturnRequest("PUT", {"body"}) >>)

patch_user ==
  Method("patch_user", "Uploads",
    <<"user_id">>,
    <<"email", "username", "first_name", "last_name", "nickname", "locale", "position", "props", "notify_props">>,
    << Url(<<Attr("api_url"), Param("user_id"), Lit("patch")>>),
       Do("reset"),
       Do("add_application_json_header"),
       IfNotNone("email", AddToJson("email", "email")),
       IfNotNone("username", AddToJson("username", "username")),
       IfNotNone("first_name", AddToJson("first_name", "first_name")),
       IfNotNone("last_name", AddToJson("last_name", "last_name")),
       IfNotNone("nickname", AddToJson("nickname", "nickname")),
       IfNotNone("locale", AddToJson("locale", "locale")),
       IfNotNone("position", AddToJson("position", "position")),
       IfNotNone("props", AddToJson("props", "props")),
       IfNotNone("notify_props", AddToJson("notify_props", "notify_props")),
       ReturnRequest("PUT", {"body"}) >>)

update_user_roles ==
  Method("update_user_roles", "Uploads",
    <<"user_id", "roles">>,
    <<>>,
    << Url(<<Attr("api_url"), Param("user_id"), Lit("roles")>>),
       Do("reset"),
       Do("add_application_json_header"),
       AddToJson("roles", "roles"),
       ReturnRequest("PUT", {"body"}) >>)

update_user_active_status ==
  Method("update_user_active_status", "Uploads",
    <<"user_id", "active">>,
    <<>>,
    << Url(<<Attr("api_url"), Param("user_id"), Lit("active")>>),
       Do("reset"),
       Do("add_application_json_header"),
       AddToJson("active", "active"),
       ReturnRequest("PUT", {"body"}) >>)

get_user_profile_image ==
  Method("get_user_profile_image", "Uploads",
    <<"user_id">>,
    <<"_">>,
    << Url(<<Attr("api_url"), Param("user_id"), Lit("image")>>),
       Do("reset"),
       Do("add_application_json_header"),
       IfNotNone("_", AddToJson("_", "_")),
       ReturnRequest("GET", {"body"}) >>)

set_user_profile_image ==
  Method("set_user_profile_image", "Uploads",
    <<"user_id", "image">>,
    <<>>,
    << Url(<<Attr("api_url"), Param("user_id"), Lit("image")>>),
       Do("reset"),
       Do("add_application_multipart_form_data_header"),
       AddToMultipartFormData("image", "image"),
       ReturnRequest("POST", {"file"}) >>)

\* delete_user_profile_image staging a header before its URL expression fails
delete_user_profile_image_header_first ==
  Method("delete_user_profile_image", "Uploads",
    <<"user_id">>,
    <<>>,
    << Do("add_application_json_header"),
       Url(<<Attr("self.api_url"), Param("user_id"), Lit("image")>>),
       Do("reset"),
       ReturnRequest("DEL", {}) >>)

delete_user_profile_image ==
  Method("delete_user_profile_image", "Uploads",
    <<"user_id">>,
    <<>>,
    << Url(<<Attr("self.api_url"), Param("user_id"), Lit("image")>>),
       Do("reset"),
       ReturnRequest("DEL", {}) >>)

return_user_default_profile_image ==
  Method("return_user_default_profile_image", "Uploads",
    <<"user_id">>,
    <<>>,
    << Url(<<Attr("api_url"), Param("user_id"), Lit("image"), Lit("default")>>),
       Do("reset"),
       ReturnRequest("GET", {}) >>)

get_user_by_username ==
  Method("get_user_by_username", "Uploads",
    <<"username">>,
    <<>>,
    << Url(<<Attr("api_url"), Lit("username"), Param("username")>>),
       Do("reset"),
       ReturnRequest("GET", {}) >>)

reset_password ==
  Method("reset_password", "Uploads",
    <<"code", "new_password">>,
    <<>>,
    << Url(<<Attr("api_url"), Lit("password"), Lit("reset")>>),
       Do("reset"),
       Do("add_application_json_header"),
       AddToJson("code", "code"),
       AddToJson("new_password", "new_password"),
       ReturnRequest("POST", {"body"}) >>)

update_user_mfa ==
  Method("update_user_mfa", "Uploads",
    <<"user_id", "activate">>,
    <<"code">>,
    << Url(<<Attr("api_url"), Param("user_id"), Lit("mfa")>>),
       Do("reset"),
       Do("add_application_json_header"),
       AddToJson("activate", "activate"),
       IfNotNone("code", AddToJson("code", "code")),
       ReturnRequest("PUT", {"body"}) >>)

generate_mfa_secret ==
  Method("generate_mfa_secret", "Uploads",
    <<"user_id">>,
    <<>>,
    << Url(<<Attr("api_url"), Param("user_id"), Lit("mfa"), Lit("generate")>>),
       Do("reset"),
       ReturnRequest("POST", {}) >>)

demote_user_to_guest ==
  Method("demote_user_to_guest", "Uploads",
    <<"user_id">>,
    <<>>,
    << Url(<<Attr("api_url"), Param("user_id"), Lit("demote")>>),
       Do("reset"),
       ReturnRequest("POST", {}) >>)

promote_guest_to_user ==
  Method("promote_guest_to_user", "Uploads",
    <<"user_id">>,
    <<>>,
    << Url(<<Attr("api_url"), Param("user_id"), Lit("promote")>>),
       Do("reset"),
       ReturnRequest("POST", {}) >>)

convert_user_to_bot ==
  Method("convert_user_to_bot", "Uploads",
    <<"user_id">>,
    <<>>,
    << Url(<<Attr("api_url"), Param("user_id"), Lit("convert_to_bot")>>),
       Do("reset"),
       ReturnRequest("POST", {}) >>)

check_mfa ==
  Method("check_mfa", "Uploads",
    <<"login_id">>,
    <<>>,
    << Url(<<Attr("api_url"), Lit("mfa")>>),
       Do("reset"),
       Do("add_application_json_header"),
       AddToJson("login_id", "login_id"),
       ReturnRequest("POST", {"body"}) >>)

update_user_password ==
  Method("update_user_password", "Uploads",
    <<"user_id", "new_password">>,
    <<"current_password">>,
    << Url(<<Attr("api_url"), Param("user_id"), Lit("password")>>),
       Do("reset"),
       Do("add_application_json_header"),
       AddToJson("new_password", "new_password"),
       IfNotNone("current_password", AddToJson("current_password", "current_password")),
       ReturnRequest("PUT", {"body"}) >>)

send_password_reset_email ==
  Method("send_password_reset_email", "Uploads",
    <<"email">>,
    <<>>,
    << Url(<<Attr("api_url"), Lit("password"), Lit("reset"), Lit("send")>>),
       Do("reset"),
       Do("add_application_json_header"),
       AddToJson("email", "email"),
       ReturnRequest("POST", {"body"}) >>)

get_user_by_email ==
  Method("get_user_by_email", "Uploads",
    <<"email">>,
    <<>>,
    << Url(<<Attr("api_url"), Lit("email"), Param("email")>>),
       Do("reset"),
       ReturnRequest("GET", {}) >>)

get_user_sessions ==
  Method("get_user_sessions", "Uploads",
    <<"user_id">>,
    <<>>,
    << Url(<<Attr("api_url"), Param("user_id"), Lit("sessions")>>),
       Do("reset"),
       ReturnRequest("GET", {}) >>)

revoke_user_session ==
  Method("revoke_user_session", "Uploads",
    <<"user_id", "session_id">>,
    <<>>,
    << Url(<<Attr("api_url"), Param("user_id"), Lit("sessions"), Lit("revoke")>>),
       Do("reset"),
       Do("add_application_json_header"),
       AddToJson("session_id", "session_id"),
       ReturnRequest("POST", {"body"}) >>)

revoke_all_active_sessions_for_user ==
  Method("revoke_all_active_sessions_for_user", "Uploads",
    <<"user_id">>,
    <<>>,
    << Url(<<Attr("api_url"), Param("user_id"), Lit("sessions"), Lit("revoke"), Lit("all")>>),
       Do("reset"),
       ReturnRequest("POST", {}) >>)

attach_mobile_device ==
  Method("attach_mobile_device", "Uploads",
    <<"device_id">>,
    <<>>,
    << Url(<<Attr("api_url"), Lit("sessions"), Lit("device")>>),
       Do("reset"),
       Do("add_application_json_header"),
       AddToJson("device_id", "device_id"),
       ReturnRequest("PUT", {"body"}) >>)

get_user_audits ==
  Method("get_user_audits", "Uploads",
    <<"user_id">>,
    <<>>,
    << Url(<<Attr("api_url"), Param("user_id"), Lit("audits")>>),
       Do("reset"),
       ReturnRequest("GET", {}) >>)

\* ---- class Posts (mm_posts_api.py) ----

\* create_post as it would be were reset() called after the header is staged
create_post_late_reset ==
  Method("create_post", "Posts",
    <<"set_online", "channel_id">>,
    <<"message", "root_id", "file_ids", "props", "metadata">>,
    << Url(<<Attr("api_url")>>),
       Do("add_application_json_header"),
       Do("reset"),
       AddToJson("set_online", "set_online"),
       AddToJson("channel_id", "channel_id"),
       IfNotNone("message", AddToJson("message", "message")),
       IfNotNone("root_id", AddToJson("root_id", "root_id")),
       IfNotNone("file_ids", AddToJson("file_ids", "file_ids")),
       IfNotNone("props", AddToJson("props", "props")),
       IfNotNone("metadata", AddToJson("metadata", "metadata")),
       ReturnRequest("POST", {"body"}) >>)

\* create_post sending props in the place of a supplied metadata
create_post_props_as_metadata ==
  Method("create_post", "Posts",
    <<"set_online", "channel_id">>,
    <<"message", "root_id", "file_ids", "props", "metadata">>,
    << Url(<<Attr("api_url")>>),
       Do("reset"),
       Do("add_application_json_header"),
       AddToJson("set_online", "set_online"),
       AddToJson("channel_id", "channel_id"),
       IfNotNone("message", AddToJson("message", "message")),
       IfNotNone("root_id", AddToJson("root_id", "root_id")),
       IfNotNone("file_ids", AddToJson("file_ids", "file_ids")),
       IfNotNone("props", AddToJson("props", "props")),
       IfNotNone("metadata", AddToJson("metadata", "props")),
       ReturnRequest("POST", {"body"}) >>)

create_post ==
  Method("create_post", "Posts",
    <<"set_online", "channel_id">>,
    <<"message", "root_id", "file_ids", "props", "metadata">>,
    << Url(<<Attr("api_url")>>),
       Do("reset"),
       Do("add_application_json_header"),
       AddToJson("set_online", "set_online"),
       AddToJson("channel_id", "channel_id"),
       IfNotNone("message", AddToJson("message", "message")),
       IfNotNone("root_id", AddToJson("root_id", "root_id")),
       IfNotNone("file_ids", AddToJson("file_ids", "file_ids")),
       IfNotNone("props", AddToJson("props", "props")),
       IfNotNone("metadata", AddToJson("metadata", "metadata")),
       ReturnRequest("POST", {"body"}) >>)

create_ephemeral_post ==
  Method("create_ephemeral_post", "Posts",
    <<"user_id", "post">>,
    <<>>,
    << Url(<<Attr("api_url"), Lit("ephemeral")>>),
       Do("reset"),
       Do("add_application_json_header"),
       AddToJson("user_id", "user_id"),
       AddToJson("post", "post"),
       ReturnRequest("POST", {"body"}) >>)

get_post ==
  Method("get_post", "Posts",
    <<"post_id", "include_deleted">>,
    <<>>,
    << Url(<<Attr("api_url"), Param("post_id")>>),
       Do("reset"),
       Do("add_application_json_header"),
       IfNotNone("include_deleted", AddToJson("include_deleted", "include_deleted")),
       ReturnRequest("GET", {"body"}) >>)

delete_post ==
  Method("delete_post", "Posts",
    <<"post_id">>,
    <<>>,
    << Url(<<Attr("api_url"), Param("post_id")>>),
       Do("reset"),
       ReturnRequest("DEL", {}) >>)

\* update_post staging on top of whatever the instance holds
update_post_without_reset ==
  Method("update_post", "Posts",
    <<"post_id", "id">>,
    <<"is_pinned", "message", "has_reactions", "props">>,
    << Url(<<Attr("api_url"), Param("post_id")>>),
       Do("add_application_json_header"),
       AddToJson("id", "id"),
       IfNotNone("is_pinned", AddToJson("is_pinned", "is_pinned")),
       IfNotNone("message", AddToJson("message", "message")),
       IfNotNone("has_reactions", AddToJson("has_reactions", "has_reactions")),
       IfNotNone("props", AddToJson("props", "props")),
       ReturnRequest("PUT", {"body"}) >>)

update_post ==
  Method("update_post", "Posts",
    <<"post_id", "id">>,
    <<"is_pinned", "message", "has_reactions", "props">>,
    << Url(<<Attr("api_url"), Param("post_id")>>),
       Do("reset"),
       Do("add_application_json_header"),
       AddToJson("id", "id"),
       IfNotNone("is_pinned", AddToJson("is_pinned", "is_pinned")),
       IfNotNone("message", AddToJson("message", "message")),
       IfNotNone("has_reactions", AddToJson("has_reactions", "has_reactions")),
       IfNotNone("props", AddToJson("props", "props")),
       ReturnRequest("PUT", {"body"}) >>)

\* ---- class Bookmarks (mm_bookmarks_api.py) ----

\* get_chnl_bkmrks_for_chnl calling request() without returning what it gives back
get_chnl_bkmrks_for_chnl_dropping_response ==
  Method("get_chnl_bkmrks_for_chnl", "Bookmarks",
    <<"channel_id">>,
    <<"bookmarks_since">>,
    << Url(<<Attr("api_url"), Param("channel_id"), Lit("bookmarks")>>),
       Do("reset"),
       Do("add_application_json_header"),
       IfNotNone("bookmarks_since", AddToJson("bookmarks_since", "bookmarks_since")),
       [ReturnRequest("GET", {"body"}) EXCEPT !.returns = FALSE] >>)

get_chnl_bkmrks_for_chnl ==
  Method("get_chnl_bkmrks_for_chnl", "Bookmarks",
    <<"channel_id">>,
    <<"bookmarks_since">>,
    << Url(<<Attr("api_url"), Param("channel_id"), Lit("bookmarks")>>),
       Do("reset"),
       Do("add_application_json_header"),
       IfNotNone("bookmarks_since", AddToJson("bookmarks_since", "bookmarks_since")),
       ReturnRequest("GET", {"body"}) >>)

create_chnl_bkmrk ==
  Method("create_chnl_bkmrk", "Bookmarks",
    <<"channel_id", "display_name", "tp">>,
    <<"file_id", "link_url", "image_url", "emoji">>,
    << Url(<<Attr("api_url"), Param("channel_id"), Lit("bookmarks")>>),
       Do("reset"),
       Do("add_application_json_header"),
       AddToJson("display_name", "display_name"),
       AddToJson("type", "tp"),
       IfNotNone("file_id", AddToJson("file_id", "file_id")),
       IfNotNone("link_url", AddToJson("link_url", "link_url")),
       IfNotNone("image_url", AddToJson("image_url", "image_url")),
       IfNotNone("emoji", AddToJson("emoji", "emoji")),
       ReturnRequest("POST", {"body"}) >>)

upd_chnl_bkmrk ==
  Method("upd_chnl_bkmrk", "Bookmarks",
    <<"channel_id", "bookmark_id">>,
    <<"file_id", "display_name", "sort_order", "link_url", "image_url", "emoji", "tp">>,
    << Url(<<Attr("api_url"), Param("channel_id"), Lit("bookmarks"), Param("bookmark_id")>>),
       Do("reset"),
       Do("add_application_json_header"),
       IfNotNone("file_id", AddToJson("file_id", "file_id")),
       IfNotNone("display_name", AddToJson("display_name", "display_name")),
       IfNotNone("sort_order", AddToJson("sort_order", "sort_order")),
       IfNotNone("link_url", AddToJson("link_url", "link_url")),
       IfNotNone("image_url", AddToJson("image_url", "image_url")),
       IfNotNone("emoji", AddToJson("emoji", "emoji")),
       IfNotNone("tp", AddToJson("type", "tp")),
       ReturnRequest("PATCH", {"body"}) >>)

\* ---- class Plugins (mm_plugins_api.py) ----

upload_plugin ==
  Method("upload_plugin", "Plugins",
    <<"plugin", "force">>,
    <<>>,
    << Url(<<Attr("api_url"), Lit("")>>),
       Do("reset"),
       Do("add_application_json_header"),
       AddToJson("plugin", "plugin"),
       IfNotNone("force", AddToJson("force", "force")),
       ReturnRequest("POST", {"body"}) >>)

get_plugins ==
  Method("get_plugins", "Plugins",
    <<>>,
    <<>>,
    << Url(<<Attr("api_url"), Lit("")>>),
       Do("reset"),
       ReturnRequest("GET", {}) >>)

\* install_plugin_from_url dispatching without body=True
install_plugin_from_url_without_body ==
  Method("install_plugin_from_url", "Plugins",
    <<"plugin_download_url", "force">>,
    <<>>,
    << Url(<<Attr("api_url"), Lit("")>>),
       Do("reset"),
       Do("add_application_json_header"),
       AddToJson("plugin_download_url", "plugin_download_url"),
       IfNotNone("force", AddToJson("force", "force")),
       ReturnRequest("GET", {}) >>)

install_plugin_from_url ==
  Method("install_plugin_from_url", "Plugins",
    <<"plugin_download_url", "force">>,
    <<>>,
    << Url(<<Attr("api_url"), Lit("")>>),
       Do("reset"),
       Do("add_application_json_header"),
       AddToJson("plugin_download_url", "plugin_download_url"),
       IfNotNone("force", AddToJson("force", "force")),
       ReturnRequest("GET", {"body"}) >>)

\* ---- class DataRetention (mm_data_retention_api.py) ----

get_policies_applied_to_user_teams ==
  Method("get_policies_applied_to_user_teams", "DataRetention",
    <<"user_id", "page", "per_page">>,
    <<>>,
    << Url(<<Attr("base_url"), Lit("users"), Param("user_id"), Lit("data_retention"), Lit("team_policies")>>),
       Do("reset"),
       Do("add_application_json_header"),
       IfNotNone("page", AddToJson("page", "page")),
       IfNotNone("per_page", AddToJson("per_page", "per_page")),
       ReturnRequest("GET", {"body"}) >>)

\* get_policies_applied_to_user_chnls calling request() and discarding its result
get_policies_applied_to_user_chnls_discarding_result ==
  Method("get_policies_applied_to_user_chnls", "DataRetention",
    <<"user_id", "page", "per_page">>,
    <<>>,
    << Url(<<Attr("base_url"), Lit("users"), Param("user_id"), Lit("data_retention"), Lit("channel_policies")>>),
       Do("reset"),
       Do("add_application_json_header"),
       IfNotNone("page", AddToJson("page", "page")),
       IfNotNone("per_page", AddToJson("per_page", "per_page")),
       [ReturnRequest("GET", {"body"}) EXCEPT !.returns = FALSE] >>)

get_policies_applied_to_user_chnls ==
  Method("get_policies_applied_to_user_chnls", "DataRetention",
    <<"user_id", "page", "per_page">>,
    <<>>,
    << Url(<<Attr("base_url"), Lit("users"), Param("user_id"), Lit("data_retention"), Lit("channel_policies")>>),
       Do("reset"),
       Do("add_application_json_header"),
       IfNotNone("page", AddToJson("page", "page")),
       IfNotNone("per_page", AddToJson("per_page", "per_page")),
       ReturnRequest("GET", {"body"}) >>)

AllMethods ==
  {create_team, get_teams, get_team, update_team,
   delete_team, patch_team, update_team_privacy, restore_team,
   get_team_by_name, search_teams, check_if_team_exists, get_user_teams,
   get_team_members, add_user_to_team, add_user_to_team_from_invite, add_multiple_users_to_team,
   get_team_members_for_user, get_team_member, remove_user_from_team, get_team_members_by_ids,
   get_team_stats, regenerate_invite_id_from_team, get_team_icon, sets_team_icon,
   remove_team_icon, update_team_member_roles, update_scheme_derived_roles_of_team_member, get_team_unread_for_user,
   get_unread_for_team, invite_users_to_team_by_email, invite_guests_to_team_by_email, invalidate_active_email_invitations,
   import_team_from_other_application, get_invite_info_for_team, set_team_scheme, team_members_minus_group_members,
   search_files_in_team, login_to_mattermost_server, autologin_to_mm_server_using_cws_token, logout_from_mm_server,
   create_user, get_users, permanent_delete_all_users, get_users_by_ids,
   get_users_by_group_channels_ids, get_users_by_usernames, search_users, autocomplete_users,
   get_user_ids_of_known_users, get_total_count_of_users_in_the_system, get_total_count_of_users_in_system_matching_specified_filters, get_user,
   update_user, deactivate_user_account, patch_user, update_user_roles,
   update_user_active_status, get_user_profile_image, set_user_profile_image, delete_user_profile_image,
   return_user_default_profile_image, get_user_by_username, reset_password, update_user_mfa,
   generate_mfa_secret, demote_user_to_guest, promote_guest_to_user, convert_user_to_bot,
   check_mfa, update_user_password, send_password_reset_email, get_user_by_email,
   get_user_sessions, revoke_user_session, revoke_all_active_sessions_for_user, attach_mobile_device,
   get_user_audits, create_post, create_ephemeral_post, get_post,
   delete_post, update_post, get_chnl_bkmrks_for_chnl, create_chnl_bkmrk,
   upd_chnl_bkmrk, upload_plugin, get_plugins, install_plugin_from_url,
   get_policies_applied_to_user_teams, get_policies_applied_to_user_chnls}
MethodNames == {m.name : m \in AllMethods}
MethodTable ==
  [create_team |-> create_team, get_teams |-> get_teams,
   get_team |-> get_team, update_team |-> update_team,
   delete_team |-> delete_team, patch_team |-> patch_team,
   update_team_privacy |-> update_team_privacy, restore_team |-> restore_team,
   get_team_by_name |-> get_team_by_name, search_teams |-> search_teams,
   check_if_team_exists |-> check_if_team_exists, get_user_teams |-> get_user_teams,
   get_team_members |-> get_team_members, add_user_to_team |-> add_user_to_team,
   add_user_to_team_from_invite |-> add_user_to_team_from_invite, add_multiple_users_to_team |-> add_multiple_users_to_team,
   get_team_members_for_user |-> get_team_members_for_user, get_team_member |-> get_team_member,
   remove_user_from_team |-> remove_user_from_team, get_team_members_by_ids |-> get_team_members_by_ids,
   get_team_stats |-> get_team_stats, regenerate_invite_id_from_team |-> regenerate_invite_id_from_team,
   get_team_icon |-> get_team_icon, sets_team_icon |-> sets_team_icon,
   remove_team_icon |-> remove_team_icon, update_team_member_roles |-> update_team_member_roles,
   update_scheme_derived_roles_of_team_member |-> update_scheme_derived_roles_of_team_member, get_team_unread_for_user |-> get_team_unread_for_user,
   get_unread_for_team |-> get_unread_for_team, invite_users_to_team_by_email |-> invite_users_to_team_by_email,
   invite_guests_to_team_by_email |-> invite_guests_to_team_by_email, invalidate_active_email_invitations |-> invalidate_active_email_invitations,
   import_team_from_other_application |-> import_team_from_other_application, get_invite_info_for_team |-> get_invite_info_for_team,
   set_team_scheme |-> set_team_scheme, team_members_minus_group_members |-> team_members_minus_group_members,
   search_files_in_team |-> search_files_in_team, login_to_mattermost_server |-> login_to_mattermost_server,
   autologin_to_mm_server_using_cws_token |-> autologin_to_mm_server_using_cws_token, logout_from_mm_server |-> logout_from_mm_server,
   create_user |-> create_user, get_users |-> get_users,
   permanent_delete_all_users |-> permanent_delete_all_users, get_users_by_ids |-> get_users_by_ids,
   get_users_by_group_channels_ids |-> get_users_by_group_channels_ids, get_users_by_usernames |-> get_users_by_usernames,
   search_users |-> search_users, autocomplete_users |-> autocomplete_users,
   get_user_ids_of_known_users |-> get_user_ids_of_known_users, get_total_count_of_users_in_the_system |-> get_total_count_of_users_in_the_system,
   get_total_count_of_users_in_system_matching_specified_filters |-> get_total_count_of_users_in_system_matching_specified_filters, get_user |-> get_user,
   update_user |-> update_user, deactivate_user_account |-> deactivate_user_account,
   patch_user |-> patch_user, update_user_roles |-> update_user_roles,
   update_user_active_status |-> update_user_active_status, get_user_profile_image |-> get_user_profile_image,
   set_user_profile_image |-> set_user_profile_image, delete_user_profile_image |-> delete_user_profile_image,
   return_user_default_profile_image |-> return_user_default_profile_image, get_user_by_username |-> get_user_by_username,
   reset_password |-> reset_password, update_user_mfa |-> update_user_mfa,
   generate_mfa_secret |-> generate_mfa_secret, demote_user_to_guest |-> demote_user_to_guest,
   promote_guest_to_user |-> promote_guest_to_user, convert_user_to_bot |-> convert_user_to_bot,
   check_mfa |-> check_mfa, update_user_password |-> update_user_password,
   send_password_reset_email |-> send_password_reset_email, get_user_by_email |-> get_user_by_email,
   get_user_sessions |-> get_user_sessions, revoke_user_session |-> revoke_user_session,
   revoke_all_active_sessions_for_user |-> revoke_all_active_sessions_for_user, attach_mobile_device |-> attach_mobile_device,
   get_user_audits |-> get_user_audits, create_post |-> create_post,
   create_ephemeral_post |-> create_ephemeral_post, get_post |-> get_post,
   delete_post |-> delete_post, update_post |-> update_post,
   get_chnl_bkmrks_for_chnl |-> get_chnl_bkmrks_for_chnl, create_chnl_bkmrk |-> create_chnl_bkmrk,
   upd_chnl_bkmrk |-> upd_chnl_bkmrk, upload_plugin |-> upload_plugin,
   get_plugins |-> get_plugins, install_plugin_from_url |-> install_plugin_from_url,
   get_policies_applied_to_user_teams |-> get_policies_applied_to_user_teams, get_policies_applied_to_user_chnls |-> get_policies_applied_to_user_chnls]

Classes == {m.cls : m \in AllMethods}

\* self.api_url = f"{self.base_url}/<suffix>" in each class's __init__.
ApiSuffix(c) ==
  CASE c = "Teams" -> "teams"
    [] c = "Uploads" -> "users"
    [] c = "Posts" -> "posts"
    [] c = "Bookmarks" -> "channels"
    [] c = "Plugins" -> "plugins"
    [] c = "DataRetention" -> "data_retention"

Range(s) == {s[i] : i \in DOMAIN s}
ParamsOf(m) == Range(MethodTable[m].req) \cup Range(MethodTable[m].opt)
OptionalOf(m) == Range(MethodTable[m].opt)

\* The field name a parameter travels under.
WireKey(p) ==
  CASE p \in {"tp", "t_type"} -> "type"
    [] p = "t_id" -> "team_id"
    [] OTHER -> p

(***************************************************************************)
(* Base: the shared request helper.                                        *)
(***************************************************************************)
BaseOps == {"reset", "add_application_json_header", "add_to_json",
            "add_multipart_form_data", "add_file",
            "add_to_multipart_form_data", "request"}
\* request(url, request_type, body=False, files=False)
RequestKw == {"body", "files"}
RequestTypes == {"GET", "POST", "PUT", "PATCH", "DEL"}
\* What the HTTP round trip can come to.
Outcomes == {"ok", "transport_error", "http_error", "decode_error"}

\* base_url as Base.__init__ derives it from server_url.
BaseUrl(server) == <<server, "api", "v4">>

JsonHeaders(tok) ==
  [h \in {"Content-Type", "Authorization"} |->
     IF h = "Content-Type" THEN "application/json" ELSE <<"Bearer", tok>>]

VARIABLES
  cls,       \* the resource class of the instance
  token,     \* self.token
  base_url,  \* self.base_url
  api_url,   \* self.api_url
  headers,   \* staged headers
  json,      \* staged JSON fields
  parts,     \* staged multipart form fields
  files,     \* staged file parts
  pc,        \* per call: "idle", "run", "done" (returned), "raised"
  meth,      \* per call: the method running
  ip,        \* per call: the next statement of the body
  args,      \* per call: the arguments read so far
  url,       \* per call: the local url
  trace,     \* per call: the Base operations the call has performed
  sent,      \* per call: the HTTP requests it has dispatched
  ret,       \* per call: what the caller receives
  stale,     \* per call: whether the instance held staged data when it began
  callers,   \* the threads that make calls on the instance
  overlapped \* per call: whether another call changed the staging state
             \* while this one was running

inst == <<cls, token, base_url, api_url, callers>>
staging == <<headers, json, parts, files>>
frame == <<pc, meth, ip, args, url, trace, sent, ret, stale, overlapped>>
vars == <<cls, token, base_url, api_url, headers, json, parts, files,
          pc, meth, ip, args, url, trace, sent, ret, stale, callers, overlapped>>

\* The instance as its constructor leaves it, and no call made yet.
Constructed(c) ==
  /\ cls = c
  /\ token \in Tokens
  /\ \E s \in ServerUrls :
       /\ base_url = BaseUrl(s)
       /\ api_url = BaseUrl(s) \o <<ApiSuffix(cls)>>
  /\ headers = EmptyMap
  /\ json = EmptyMap
  /\ parts = EmptyMap
  /\ files = {}
  /\ pc = [t \in Threads |-> "idle"]
  /\ meth = [t \in Threads |-> ""]
  /\ ip = [t \in Threads |-> 0]
  /\ args = [t \in Threads |-> EmptyMap]
  /\ url = [t \in Threads |-> <<>>]
  /\ trace = [t \in Threads |-> <<>>]
  /\ sent = [t \in Threads |-> <<>>]
  /\ ret = [t \in Threads |-> ""]
  /\ stale = [t \in Threads |-> FALSE]
  /\ overlapped = [t \in Threads |-> FALSE]

\* An instance of any resource class, used by one caller.
Init ==
  /\ \E c \in Classes : Constructed(c)
  /\ callers = Serial

(***************************************************************************)
(* Arguments.                                                              *)
(***************************************************************************)
\* The plain call supplies every required parameter and omits the others.
Default(m, p) == IF p \in OptionalOf(m) THEN None ELSE "a"
Devs(m, a) == Cardinality({p \in DOMAIN a : a[p] # Default(m, p)})

\* How far a call may depart from the plain call.
Budget == IF callers = Serial THEN MaxDev ELSE ConcDev

\* What the calls of the other threads have used of it.
RECURSIVE DevsOfCalls(_)
DevsOfCalls(T) ==
  IF T = {} THEN 0
  ELSE LET u == CHOOSE x \in T : TRUE
       IN  (IF meth[u] = "" THEN 0 ELSE Devs(meth[u], args[u])) + DevsOfCalls(T \ {u})

\* The ways the parameters P can turn out to be bound, given those read so far.
Ext(t, P) ==
  LET new == P \ DOMAIN args[t]
      left == Budget - DevsOfCalls(Threads \ {t})
  IN  {a \in {args[t] @@ b : b \in [new -> ArgValues]} : Devs(meth[t], a) <= left}

Running(t) == pc[t] = "run"
Cur(t) == MethodTable[meth[t]].body[ip[t]]

\* The value of an attribute path read off self.
HasAttr(path) == path \in {"api_url", "base_url", "token"}
GetAttr(path) ==
  CASE path = "api_url" -> api_url
    [] path = "base_url" -> base_url
    [] path = "token" -> <<token>>

RECURSIVE Format(_, _)
Format(segs, a) ==
  IF segs = <<>> THEN <<>>
  ELSE LET s == Head(segs)
           here == CASE s.k = "lit" -> <<s.v>>
                     [] s.k = "param" -> <<Str(a[s.v])>>
                     [] s.k = "attr" -> GetAttr(s.v)
       IN  here \o Format(Tail(segs), a)

SegParams(segs) == {segs[i].v : i \in {j \in DOMAIN segs : segs[j].k = "param"}}
SegAttrs(segs) == {segs[i].v : i \in {j \in DOMAIN segs : segs[j].k = "attr"}}

Did(op, key, val) == [op |-> op, key |-> key, val |-> val]
Advance(t) == ip' = [ip EXCEPT ![t] = @ + 1]

\* Call t changes the staging state of the instance: every other call that is
\* under way has been overlapped.
Disturb(t) ==
  overlapped' = [u \in Threads |-> overlapped[u] \/ (u # t /\ pc[u] = "run")]

(***************************************************************************)
(* A caller invokes a method of the instance.                              *)
(***************************************************************************)
Call(t, m) ==
  /\ pc[t] = "idle"
  /\ MethodTable[m].cls = cls
  /\ pc' = [pc EXCEPT ![t] = "run"]
  /\ meth' = [meth EXCEPT ![t] = m]
  /\ ip' = [ip EXCEPT ![t] = 1]
  /\ stale' = [stale EXCEPT ![t] = staging # <<EmptyMap, EmptyMap, EmptyMap, {}>>]
  /\ overlapped' = [overlapped EXCEPT ![t] = FALSE]
  /\ UNCHANGED <<inst, staging, args, url, trace, sent, ret>>

\* url = f"..."   (an assignment; its target is the local url in every method,
\* an assignment to self.token would replace the stored credential)
EvalUrl(t) ==
  /\ Running(t)
  /\ Cur(t).op = "url"
  /\ \A p \in SegAttrs(Cur(t).segs) : HasAttr(p)
  /\ \E a \in Ext(t, SegParams(Cur(t).segs)) :
       /\ args' = [args EXCEPT ![t] = a]
       /\ url' = IF Cur(t).target = "url"
                 THEN [url EXCEPT ![t] = Format(Cur(t).segs, a)]
                 ELSE url
       /\ token' = IF Cur(t).target = "self.token"
                   THEN Format(Cur(t).segs, a)[1]
                   ELSE token
  /\ Advance(t)
  /\ UNCHANGED <<cls, base_url, api_url, callers, staging, pc, meth, trace, sent,
                 ret, stale, overlapped>>

\* A statement that cannot be evaluated: an attribute self does not have, or
\* a keyword request() does not take.  The exception leaves the method.
Raises(s) ==
  CASE s.op = "url" /\ \E p \in SegAttrs(s.segs) : ~HasAttr(p) -> "AttributeError"
    [] s.op # "url" /\ s.op \notin BaseOps -> "AttributeError"
    [] s.op = "request" /\ ~(s.kw \subseteq RequestKw) -> "TypeError"
    [] OTHER -> ""

Raise(t) ==
  /\ Running(t)
  /\ Raises(Cur(t)) # ""
  /\ Cur(t).guard = ""
  /\ pc' = [pc EXCEPT ![t] = "raised"]
  /\ ret' = [ret EXCEPT ![t] = Raises(Cur(t))]
  /\ UNCHANGED <<inst, staging, meth, ip, args, url, trace, sent, stale, overlapped>>

\* self.reset()
Reset(t) ==
  /\ Running(t)
  /\ Cur(t).op = "reset"
  /\ headers' = EmptyMap
  /\ json' = EmptyMap
  /\ parts' = EmptyMap
  /\ files' = {}
  /\ trace' = [trace EXCEPT ![t] = Append(@, Did("reset", "", ""))]
  /\ Advance(t)
  /\ Disturb(t)
  /\ UNCHANGED <<inst, pc, meth, args, url, sent, ret, stale>>

\* self.add_application_json_header()
AddApplicationJsonHeader(t) ==
  /\ Running(t)
  /\ Cur(t).op = "add_application_json_header"
  /\ headers' = JsonHeaders(token) @@ headers
  /\ trace' = [trace EXCEPT ![t] = Append(@, Did("add_application_json_header", "", ""))]
  /\ Advance(t)
  /\ Disturb(t)
  /\ UNCHANGED <<inst, json, parts, files, pc, meth, args, url, sent, ret, stale>>

\* The parameters a staging statement reads when its guard lets it run.
Reads(s) == {s.guard, s.src} \ {""}
GuardHolds(s, a) == IF s.guard = "" THEN TRUE ELSE a[s.guard] # None

\* self.add_to_json(key, value), run unconditionally or under a guard that holds
StageJson(t) ==
  /\ Running(t)
  /\ Cur(t).op = "add_to_json"
  /\ \E a \in Ext(t, Reads(Cur(t))) :
       /\ GuardHolds(Cur(t), a)
       /\ args' = [args EXCEPT ![t] = a]
       /\ json' = Put(json, Cur(t).key, a[Cur(t).src])
       /\ trace' = [trace EXCEPT ![t] = Append(@, Did("add_to_json", Cur(t).key, a[Cur(t).src]))]
  /\ Advance(t)
  /\ Disturb(t)
  /\ UNCHANGED <<inst, headers, parts, files, pc, meth, url, sent, ret, stale>>

\* self.add_multipart_form_data(), self.add_file(path),
\* self.add_to_multipart_form_data(name, value)
MultipartOps == {"add_multipart_form_data", "add_file", "add_to_multipart_form_data"}
StageMultipart(t) ==
  /\ Running(t)
  /\ Cur(t).op \in MultipartOps
  /\ \E a \in Ext(t, Reads(Cur(t))) :
       LET s == Cur(t)
           v == IF s.src = "" THEN "" ELSE a[s.src]
       IN  /\ GuardHolds(s, a)
           /\ args' = [args EXCEPT ![t] = a]
           /\ headers' = IF s.op = "add_multipart_form_data"
                         THEN Put(headers, "Content-Type", "multipart/form-data")
                         ELSE headers
           /\ parts' = IF s.op = "add_to_multipart_form_data"
                       THEN Put(parts, s.key, v) ELSE parts
           /\ files' = IF s.op = "add_file" THEN files \cup {v} ELSE files
           /\ trace' = [trace EXCEPT ![t] = Append(@, Did(s.op, s.key, v))]
  /\ Advance(t)
  /\ Disturb(t)
  /\ UNCHANGED <<inst, json, pc, meth, url, sent, ret, stale>>

\* if <p> is not None: ...   with p None: the statement is passed over
SkipStaging(t) ==
  /\ Running(t)
  /\ Cur(t).guard # ""
  /\ \E a \in Ext(t, {Cur(t).guard}) :
       /\ a[Cur(t).guard] = None
       /\ args' = [args EXCEPT ![t] = a]
  /\ Advance(t)
  /\ UNCHANGED <<inst, staging, pc, meth, url, trace, sent, ret, stale, overlapped>>

\* The credential request() attaches to every call: the stored bearer token.
NoCredential == ""
Credential == token

\* return self.request(url, request_type, body, files)
Request(t) ==
  /\ Running(t)
  /\ Cur(t).op = "request"
  /\ Cur(t).kw \subseteq RequestKw
  /\ LET s == Cur(t)
         req == [verb |-> s.verb, url |-> url[t], headers |-> headers,
                 auth |-> Credential,
                 has_body |-> "body" \in s.kw,
                 body |-> IF "body" \in s.kw THEN json ELSE EmptyMap,
                 has_files |-> "files" \in s.kw,
                 parts |-> IF "files" \in s.kw THEN parts ELSE EmptyMap,
                 files |-> IF "files" \in s.kw THEN files ELSE {}]
         last == ip[t] = Len(MethodTable[meth[t]].body)
     IN  /\ sent' = [sent EXCEPT ![t] = Append(@, req)]
         /\ \E o \in Outcomes :
              /\ trace' = [trace EXCEPT ![t] = Append(@, Did("request", "", o))]
              \* return self.request(...) hands the response to the caller; a
              \* method that ends without return hands back None
              /\ ret' = [ret EXCEPT ![t] = IF s.returns THEN o
                                           ELSE IF last THEN None ELSE @]
         /\ pc' = [pc EXCEPT ![t] = IF s.returns \/ last THEN "done" ELSE @]
         /\ ip' = [ip EXCEPT ![t] = IF s.returns \/ last THEN @ ELSE @ + 1]
  /\ UNCHANGED <<inst, staging, meth, args, url, stale, overlapped>>

\* The caller has its result (or the exception) and goes on.
Resume(t) ==
  /\ pc[t] \in {"done", "raised"}
  /\ pc' = [pc EXCEPT ![t] = "idle"]
  /\ meth' = [meth EXCEPT ![t] = ""]
  /\ ip' = [ip EXCEPT ![t] = 0]
  /\ args' = [args EXCEPT ![t] = EmptyMap]
  /\ url' = [url EXCEPT ![t] = <<>>]
  /\ trace' = [trace EXCEPT ![t] = <<>>]
  /\ sent' = [sent EXCEPT ![t] = <<>>]
  /\ ret' = [ret EXCEPT ![t] = ""]
  /\ stale' = [stale EXCEPT ![t] = FALSE]
  /\ UNCHANGED <<inst, staging, overlapped>>

Next ==
  \E t \in Serial :
    \/ \E m \in MethodNames : Call(t, m)
    \/ EvalUrl(t)
    \/ Raise(t)
    \/ Reset(t)
    \/ AddApplicationJsonHeader(t)
    \/ StageJson(t)
    \/ StageMultipart(t)
    \/ SkipStaging(t)
    \/ Request(t)
    \/ Resume(t)

Spec == Init /\ [][Next]_vars

(***************************************************************************)
(* Two callers share one freshly constructed Posts instance; each makes one *)
(* call and the two calls interleave step by step.  Posts has no multipart *)
(* method and none that raises.                                            *)
(***************************************************************************)
InitConc ==
  /\ Constructed("Posts")
  /\ callers = Threads

NextConc ==
  \E t \in Threads :
    \/ \E m \in MethodNames : Call(t, m)
    \/ EvalUrl(t)
    \/ Reset(t)
    \/ AddApplicationJsonHeader(t)
    \/ StageJson(t)
    \/ SkipStaging(t)
    \/ Request(t)

SpecConc == InitConc /\ [][NextConc]_vars

(***************************************************************************)
(* Properties.                                                             *)
(***************************************************************************)
Finished(t) == pc[t] \in {"done", "raised"}
Returned(t) == pc[t] = "done"
\* The parameters that go into the URL path of method m.
PathParams(m) == SegParams(MethodTable[m].body[1].segs)
OpsDone(t) == {trace[t][i].op : i \in DOMAIN trace[t]}
StagedJson(t, k, v) == \E i \in DOMAIN trace[t] : trace[t][i] = Did("add_to_json", k, v)
StagingOps == {"add_application_json_header", "add_to_json"} \cup MultipartOps

\* C1: a request carries in its JSON body, its headers, its multipart fields
\* and its file parts only what the call that dispatches it has staged itself;
\* nothing an earlier call on the instance staged is in it.
HeaderStagedBy(t, h, v) ==
  \/ /\ "add_application_json_header" \in OpsDone(t)
     /\ h \in DOMAIN JsonHeaders(token)
     /\ v = JsonHeaders(token)[h]
  \/ /\ "add_multipart_form_data" \in OpsDone(t)
     /\ h = "Content-Type"
     /\ v = "multipart/form-data"
NoCarryOver ==
  \A t \in Threads : \A i \in DOMAIN sent[t] :
    LET r == sent[t][i]
    IN  /\ \A k \in DOMAIN r.body : StagedJson(t, k, r.body[k])
        /\ \A h \in DOMAIN r.headers : HeaderStagedBy(t, h, r.headers[h])
        /\ \A k \in DOMAIN r.parts :
             \E j \in DOMAIN trace[t] :
               trace[t][j] = Did("add_to_multipart_form_data", k, r.parts[k])
        /\ \A f \in r.files :
             \E j \in DOMAIN trace[t] : trace[t][j] = Did("add_file", "", f)
\* patch_team has dispatched its own fields on an instance an earlier call
\* had left staged data on.
NoCarryOverWitness ==
  \E t \in Threads :
    /\ Returned(t)
    /\ meth[t] = "patch_team"
    /\ stale[t]
    /\ sent[t][1].body # EmptyMap

\* C2: in every call, reset() has run before any staging operation and before
\* request(); a call that returns began its Base operations with reset().
ResetBeforeStaging ==
  \A t \in Threads :
    /\ \A i \in DOMAIN trace[t] :
         trace[t][i].op \in StagingOps \cup {"request"}
           => \E j \in 1..(i - 1) : trace[t][j].op = "reset"
    /\ Returned(t) => trace[t][1].op = "reset"
ResetBeforeStagingWitness ==
  \E t \in Threads :
    /\ Returned(t)
    /\ meth[t] = "create_post"
    /\ {"reset", "add_application_json_header", "add_to_json", "request"}
         \subseteq OpsDone(t)

\* C3: a returned call's request body has no field for an optional parameter
\* the caller left None, and the partial updates patch_team, patch_user and
\* upd_chnl_bkmrk send exactly the fields of the parameters supplied.
PartialUpdates == {"patch_team", "patch_user", "upd_chnl_bkmrk"}
Supplied(t) == {p \in DOMAIN args[t] : args[t][p] # None}
OmittedIsAbsent ==
  \A t \in Threads :
    Returned(t) =>
      LET r == sent[t][1]
          m == meth[t]
      IN  /\ \A p \in OptionalOf(m) \cap DOMAIN args[t] :
               args[t][p] = None =>
                 /\ WireKey(p) \notin DOMAIN r.body
                 /\ WireKey(p) \notin DOMAIN r.parts
                 /\ p = "image" => r.files = {}
          /\ m \in PartialUpdates =>
               DOMAIN r.body = {WireKey(p) : p \in Supplied(t) \ PathParams(m)}
OmittedIsAbsentWitness ==
  \E t \in Threads :
    /\ Returned(t)
    /\ meth[t] = "patch_user"
    /\ args[t]["nickname"] = None
    /\ args[t]["email"] # None
    /\ DOMAIN sent[t][1].body = {"email"}

\* C4: a returned call's request carries, for every optional parameter the
\* caller set to a value, the parameter's field with exactly that value (an
\* image to upload travels as a file part).
Omittable(m) ==
  OptionalOf(m) \cup (IF m \in PartialUpdates THEN ParamsOf(m) \ PathParams(m) ELSE {})
SuppliedIsPresent ==
  \A t \in Threads :
    Returned(t) =>
      LET r == sent[t][1]
          m == meth[t]
      IN  \A p \in Omittable(m) \cap Supplied(t) :
            IF p = "image"
            THEN args[t][p] \in r.files
            ELSE /\ r.has_body
                 /\ WireKey(p) \in DOMAIN r.body
                 /\ r.body[WireKey(p)] = args[t][p]
SuppliedIsPresentWitness ==
  \E t \in Threads :
    /\ Returned(t)
    /\ meth[t] = "add_multiple_users_to_team"
    /\ args[t]["t_id"] = "b"
    /\ args[t]["team_id"] = "a"
    /\ sent[t][1].body["team_id"] = "b"

\* C5: no dispatched JSON body holds a null field, whatever the arguments
\* (create_team(name=None, ...), get_team_unread_for_user(exclude_team=None)).
NoNullField ==
  \A t \in Threads : \A i \in DOMAIN sent[t] :
    \A k \in DOMAIN sent[t][i].body : sent[t][i].body[k] # None

\* C6: a statement run under "if X is not None" stages X itself, under X's
\* field name; no field is staged under a guard on another parameter.
GuardedStagesGuarded ==
  \A t \in Threads :
    (Running(t) /\ Cur(t).guard # "") =>
      /\ Cur(t).op \in {"add_to_json", "add_file", "add_to_multipart_form_data"}
      /\ Cur(t).src = Cur(t).guard
      /\ Cur(t).op = "add_to_json" => Cur(t).key = WireKey(Cur(t).guard)
\* search_users, team_id already staged, stands at the next guarded statement
GuardedStagesGuardedWitness ==
  \E t \in Threads :
    /\ Running(t)
    /\ meth[t] = "search_users"
    /\ Cur(t).guard = "not_in_team_id"
    /\ StagedJson(t, "team_id", "b")

\* C7: one call never mixes the two modes: it does not both stage a JSON
\* header or field (or dispatch with body=True) and stage a multipart part or
\* file (or dispatch with files=True).
UsesJson(t) ==
  \/ OpsDone(t) \cap {"add_application_json_header", "add_to_json"} # {}
  \/ \E i \in DOMAIN sent[t] : sent[t][i].has_body
UsesMultipart(t) ==
  \/ OpsDone(t) \cap MultipartOps # {}
  \/ \E i \in DOMAIN sent[t] : sent[t][i].has_files
JsonXorMultipart == \A t \in Threads : ~(UsesJson(t) /\ UsesMultipart(t))
JsonXorMultipartWitness ==
  \E t \in Threads :
    /\ Returned(t)
    /\ meth[t] = "sets_team_icon"
    /\ sent[t][1].has_files
    /\ sent[t][1].files = {"a"}
    /\ ~UsesJson(t)

\* C8: a call of delete_user_profile_image(user_id) resets the staging state
\* and dispatches exactly one DEL request to {base}/users/{user_id}/image,
\* whose response it returns.
DeleteUserProfileImageDispatches ==
  \A t \in Threads :
    (Finished(t) /\ meth[t] = "delete_user_profile_image") =>
      /\ Returned(t)
      /\ "reset" \in OpsDone(t)
      /\ Len(sent[t]) = 1
      /\ sent[t][1].verb = "DEL"
      /\ sent[t][1].url = base_url \o <<"users", Str(args[t]["user_id"]), "image">>
      /\ ret[t] \in Outcomes

\* C9: a call of set_user_profile_image(user_id, image) dispatches one
\* multipart POST to {base}/users/{user_id}/image with the files flag of
\* request() set, carrying the staged 'image' part.
SetUserProfileImageDispatches ==
  \A t \in Threads :
    (Finished(t) /\ meth[t] = "set_user_profile_image") =>
      /\ Returned(t)
      /\ Len(sent[t]) = 1
      /\ sent[t][1].verb = "POST"
      /\ sent[t][1].url = base_url \o <<"users", Str(args[t]["user_id"]), "image">>
      /\ sent[t][1].has_files
      /\ "image" \in DOMAIN sent[t][1].parts
      /\ sent[t][1].parts["image"] = args[t]["image"]

\* C10: upload_plugin(plugin, force) sends the plugin bundle as
\* multipart/form-data: staged as a multipart part or file and dispatched
\* with files=True, not as a field of a JSON body.
UploadPluginIsMultipart ==
  \A t \in Threads :
    (Returned(t) /\ meth[t] = "upload_plugin") =>
      /\ sent[t][1].has_files
      /\ ~sent[t][1].has_body
      /\ OpsDone(t) \cap {"add_file", "add_to_multipart_form_data"} # {}
      /\ "add_to_json" \notin OpsDone(t)

Requests(t) == {i \in DOMAIN trace[t] : trace[t][i].op = "request"}
AtMostOneRequest ==
  \A t \in Threads :
    /\ Len(sent[t]) <= 1
    /\ Cardinality(Requests(t)) = Len(sent[t])
    /\ Len(sent[t]) = 1 => Returned(t)
\* create_user has made its one request, which failed
AtMostOneRequestWitness ==
  \E t \in Threads :
    /\ Returned(t)
    /\ meth[t] = "create_user"
    /\ Len(sent[t]) = 1
    /\ ret[t] = "http_error"

\* C13: what request() gives back is what the caller gets: a transport
\* failure, a non-2xx status or an undecodable body reaches the caller as that
\* failure; no method catches it, converts it or puts a value in its place.
Failures == Outcomes \ {"ok"}
Responses(t) == {trace[t][i].val : i \in Requests(t)}
FailureSurfaces ==
  \A t \in Threads :
    Returned(t) =>
      /\ Responses(t) = {ret[t]}
      /\ \A f \in Failures : f \in Responses(t) => ret[t] = f
\* update_post and get_chnl_bkmrks_for_chnl hand a failed request on
FailureSurfacesWitness ==
  \E t \in Threads :
    /\ Returned(t)
    /\ meth[t] \in {"update_post", "get_chnl_bkmrks_for_chnl"}
    /\ Responses(t) = {"transport_error"}
    /\ ret[t] = "transport_error"

\* C14: the staging state belongs to the instance, so two calls on one
\* instance that interleave their steps race: a call can dispatch a body that
\* lacks a field it staged or holds a field the other call staged.  A call no
\* other call overlapped dispatches exactly the body it staged.
RECURSIVE OwnJson(_)
OwnJson(tr) ==
  IF tr = <<>> THEN EmptyMap
  ELSE LET e == tr[Len(tr)]
           before == OwnJson(SubSeq(tr, 1, Len(tr) - 1))
       IN  CASE e.op = "reset" -> EmptyMap
             [] e.op = "add_to_json" -> Put(before, e.key, e.val)
             [] OTHER -> before
Torn(t) ==
  \E i \in DOMAIN sent[t] :
    sent[t][i].has_body /\ sent[t][i].body # OwnJson(trace[t])
RaceOnlyWhenOverlapped ==
  \A t \in Threads : Torn(t) => overlapped[t]
\* create_post has dispatched a body without the channel_id it staged and with
\* the id that update_post, running on the other thread, staged
RaceOnlyWhenOverlappedWitness ==
  \E t, u \in Threads :
    /\ t # u
    /\ Returned(t)
    /\ meth[t] = "create_post"
    /\ meth[u] = "update_post"
    /\ StagedJson(t, "channel_id", "a")
    /\ "channel_id" \notin DOMAIN sent[t][1].body
    /\ ~(\E v \in ArgValues : StagedJson(t, "id", v))
    /\ StagedJson(u, "id", "a")
    /\ "id" \in DOMAIN sent[t][1].body

\* C15: a call goes idle -> staging -> dispatched: reset() and every staging
\* operation come before its request(), request() is the last thing it does,
\* and it is in the dispatched phase exactly when request() has been called.
DispatchIsLast ==
  \A t \in Threads :
    /\ pc[t] = "idle" => trace[t] = <<>>
    /\ \A i \in Requests(t) : i = Len(trace[t])
    /\ \A i \in DOMAIN trace[t] :
         trace[t][i].op \in StagingOps \cup {"reset"} =>
           \A j \in Requests(t) : i < j
    /\ Requests(t) # {} <=> Returned(t)
\* update_user has staged its fields and then dispatched
DispatchIsLastWitness ==
  \E t \in Threads :
    /\ Returned(t)
    /\ meth[t] = "update_user"
    /\ StagedJson(t, "username", "a")
    /\ StagedJson(t, "nickname", "b")
    /\ Len(trace[t]) = 7
    /\ Requests(t) = {7}

\* C16: no step of any method changes the stored token, the server base URL
\* or api_url, not even in a method that has a parameter called token.
CredentialsFrame ==
  [][/\ token' = token
     /\ base_url' = base_url
     /\ api_url' = api_url]_vars
\* add_user_to_team_from_invite has sent the invitation token it was given;
\* the instance still holds its own
CredentialsFrameWitness ==
  \E t \in Threads :
    /\ Returned(t)
    /\ meth[t] = "add_user_to_team_from_invite"
    /\ args[t]["token"] = "b"
    /\ sent[t][1].body = [k \in {"token"} |-> "b"]
    /\ token \in Tokens
    /\ sent[t][1].auth = token
    /\ api_url = base_url \o <<"teams">>

\* C17: every call of request() names its request_type as one of GET, POST,
\* PUT, PATCH, DEL.
KnownRequestType ==
  \A t \in Threads :
    /\ \A i \in DOMAIN sent[t] : sent[t][i].verb \in RequestTypes
    /\ (Running(t) /\ Cur(t).op = "request") => Cur(t).verb \in RequestTypes
\* remove_team_icon has dispatched with DEL, upd_chnl_bkmrk with PATCH
KnownRequestTypeWitness ==
  \E t \in Threads :
    /\ Returned(t)
    /\ \/ meth[t] = "remove_team_icon" /\ sent[t][1].verb = "DEL"
       \/ meth[t] = "upd_chnl_bkmrk" /\ sent[t][1].verb = "PATCH"

\* C18: get_team(team_id) dispatches exactly one request, GET
\* {base}/teams/{team_id}, without a body, and stages no field: after its
\* reset() the instance holds no JSON field, multipart part or file.
GetTeamDispatches ==
  \A t \in Threads :
    (Finished(t) /\ meth[t] = "get_team") =>
      /\ Returned(t)
      /\ Len(sent[t]) = 1
      /\ sent[t][1].verb = "GET"
      /\ sent[t][1].url = base_url \o <<"teams", Str(args[t]["team_id"])>>
      /\ ~sent[t][1].has_body
      /\ ~sent[t][1].has_files
      /\ OpsDone(t) \cap StagingOps = {}
      /\ json = EmptyMap /\ parts = EmptyMap /\ files = {}
\* get_team("b") has dispatched on an instance that held staged data before
GetTeamDispatchesWitness ==
  \E t \in Threads :
    /\ Returned(t)
    /\ meth[t] = "get_team"
    /\ stale[t]
    /\ args[t]["team_id"] = "b"
    /\ sent[t][1].url = <<"https://mm", "api", "v4", "teams", "b">>

\* C19: delete_team(team_id, permanent) dispatches one DEL request to
\* {base}/teams/{team_id}; the fields it stages and sends are exactly
\* {permanent: value} when permanent is supplied and none when it is omitted.
JsonStagedBy(t) ==
  {<<trace[t][i].key, trace[t][i].val>> :
     i \in {j \in DOMAIN trace[t] : trace[t][j].op = "add_to_json"}}
CreatePostOptional == {"message", "root_id", "file_ids", "props", "metadata"}
CreatePostDispatches ==
  \A t \in Threads :
    (Finished(t) /\ meth[t] = "create_post") =>
      LET r == sent[t][1]
      IN  /\ Returned(t)
          /\ Len(sent[t]) = 1
          /\ r.verb = "POST"
          /\ r.url = base_url \o <<"posts">>
          /\ r.has_body
          /\ ~r.has_files
          /\ DOMAIN args[t] = {"set_online", "channel_id"} \cup CreatePostOptional
          /\ DOMAIN r.body =
               {"set_online", "channel_id"} \cup (CreatePostOptional \cap Supplied(t))
          /\ \A k \in DOMAIN r.body : r.body[k] = args[t][k]
\* create_post(set_online="a", channel_id="b", message="a") has dispatched
\* exactly those three keys
CreatePostDispatchesWitness ==
  \E t \in Threads :
    /\ Returned(t)
    /\ meth[t] = "create_post"
    /\ sent[t][1].verb = "POST"
    /\ sent[t][1].url = <<"https://mm", "api", "v4", "posts">>
    /\ sent[t][1].body =
         [k \in {"set_online", "channel_id", "message"} |->
            IF k = "channel_id" THEN "b" ELSE "a"]

\* C21: get_teams and get_team_members convey a supplied page and per_page in
\* the URL they dispatch to (as query-string parameters), not in a JSON body.
Paging == {"page", "per_page"}
PagingInQueryString ==
  \A t \in Threads :
    (Returned(t) /\ meth[t] \in {"get_teams", "get_team_members"}) =>
      \A p \in Paging \cap Supplied(t) :
        /\ p \in PathParams(meth[t])
        /\ sent[t][1].url # Format(MethodTable[meth[t]].body[1].segs,
                                   [args[t] EXCEPT ![p] = None])
        /\ WireKey(p) \notin DOMAIN sent[t][1].body

\* C22: every request create_chnl_bkmrk dispatches with type 'file' has a
\* file_id field, and every one with type 'link' has a link_url field.  The
\* two argument values stand for the two values of the enumeration.
BookmarkFile == "a"
BookmarkLink == "b"
BookmarkTypeRequirement ==
  \A t \in Threads :
    (Returned(t) /\ meth[t] = "create_chnl_bkmrk") =>
      LET body == sent[t][1].body
      IN  /\ "type" \in DOMAIN body
          /\ body["type"] = BookmarkFile => "file_id" \in DOMAIN body
          /\ body["type"] = BookmarkLink => "link_url" \in DOMAIN body

\* C23: a method that returns hands its caller exactly the value request()
\* gave back for its single dispatch - the decoded payload as much as a failure
\* - not None, not a value of its own.
ReturnsResponse ==
  \A t \in Threads :
    Returned(t) =>
      /\ Len(sent[t]) = 1
      /\ Requests(t) = {Len(trace[t])}
      /\ ret[t] \in Outcomes
      /\ ret[t] = trace[t][Len(trace[t])].val
\* get_plugins and get_policies_applied_to_user_chnls hand the payload on
ReturnsResponseWitness ==
  \E t \in Threads :
    /\ Returned(t)
    /\ meth[t] \in {"get_plugins", "get_policies_applied_to_user_chnls"}
    /\ trace[t][Len(trace[t])] = Did("request", "", "ok")
    /\ ret[t] = "ok"

\* C24: a call stages the application/json header if and only if it
\* dispatches with body=True.
JsonHeaderIffBody ==
  \A t \in Threads :
    Returned(t) =>
      ("add_application_json_header" \in OpsDone(t) <=> sent[t][1].has_body)

UploadHasPart ==
  \A t \in Threads : \A i \in DOMAIN sent[t] :
    sent[t][i].has_files =>
      /\ OpsDone(t) \cap {"add_file", "add_to_multipart_form_data"} # {}
      /\ sent[t][i].files # {} \/ sent[t][i].parts # EmptyMap

\* C27: get_plugins, upload_plugin and install_plugin_from_url address
\* different endpoints: the (verb, URL) pair one of them dispatches is not the
\* pair another of them dispatches to.
PluginOperations == {"get_plugins", "upload_plugin", "install_plugin_from_url"}
\* The pair method m dispatches to; the Plugins URLs take no parameter.
EndpointOf(m) ==
  LET body == MethodTable[m].body
  IN  <<body[Len(body)].verb, Format(body[1].segs, EmptyMap)>>
PluginEndpointsDistinct ==
  \A t \in Threads :
    (Returned(t) /\ meth[t] \in PluginOperations) =>
      \A m \in PluginOperations \ {meth[t]} :
        <<sent[t][1].verb, sent[t][1].url>> # EndpointOf(m)

\* C28: the user-scoped operations of Teams - get_user_teams,
\* get_team_members_for_user, get_team_unread_for_user, get_unread_for_team -
\* dispatch to a URL that begins with {base}/users/{user_id}/teams.
UserScopedTeams == {"get_user_teams", "get_team_members_for_user",
                    "get_team_unread_for_user", "get_unread_for_team"}
StartsWith(u, prefix) ==
  /\ Len(u) >= Len(prefix)
  /\ SubSeq(u, 1, Len(prefix)) = prefix
UserScopedUnderUsers ==
  \A t \in Threads :
    (Returned(t) /\ meth[t] \in UserScopedTeams) =>
      StartsWith(sent[t][1].url,
                 base_url \o <<"users", Str(args[t]["user_id"]), "teams">>)

\* C29: a call that fails before its reset() is reached (the URL expression
\* of delete_user_profile_image) has made no request and performed no Base
\* operation: the instance holds staged data exactly if it did when the call
\* began.  Whatever is left, a call that has run its reset() holds only the
\* fields it staged itself.
Pristine == staging = <<EmptyMap, EmptyMap, EmptyMap, {}>>
FailureBeforeReset ==
  \A t \in Threads :
    /\ (pc[t] = "raised" /\ "reset" \notin OpsDone(t)) =>
         /\ sent[t] = <<>>
         /\ trace[t] = <<>>
         /\ stale[t] <=> ~Pristine
    /\ "reset" \in OpsDone(t) => json = OwnJson(trace[t])
\* delete_user_profile_image has failed on an instance an earlier call left
\* staged data on; the data is still there
FailureBeforeResetWitness ==
  \E t \in Threads :
    /\ pc[t] = "raised"
    /\ meth[t] = "delete_user_profile_image"
    /\ ret[t] = "AttributeError"
    /\ stale[t]
    /\ json # EmptyMap
    /\ sent[t] = <<>>

TypeOK ==
  /\ cls \in Classes
  /\ callers \in {Serial, Threads}
  /\ \A t \in Threads : pc[t] \in {"idle", "run", "done", "raised"}
  /\ \A t \in Threads : overlapped[t] \in BOOLEAN

====
